---- MODULE Spec2Model ----
(***************************************************************************)
(* BotBuilder: the build / debug / run lifecycle of App (the component in  *)
(* src/components/Tooltip.tsx, lines 23-451) together with the build       *)
(* client buildBot and the runtime calls of src/services/backendService.ts.*)
(*                                                                         *)
(* Execution model.  JavaScript runs one task at a time.  An action of     *)
(* this module is one task: a user event handler, a socket / stream /      *)
(* timer callback, or the continuation of an async function after the      *)
(* external call it awaited has settled, run up to the next await of an    *)
(* external call (continuations of callers that awaited the function run   *)
(* in the same microtask drain and are part of the same action).  React    *)
(* batches the state updates of one task and renders once afterwards; the  *)
(* effect of lines 355-359 runs after that render, so it is evaluated at   *)
(* the end of every action (operator autoStartEffect).                     *)
(*                                                                         *)
(* A handler reads React state through the closure of the render that      *)
(* created it.  Handlers invoked by the user belong to the latest render   *)
(* and see the current state; values a suspended handler reads after its   *)
(* await are the ones captured when it started and are kept in the record  *)
(* of the suspended call.  Refs (useRef) are read at the time of use.      *)
(***************************************************************************)
EXTENDS Integers, Sequences, FiniteSets, TLC

(***************************************************************************)
(* Program constants.                                                      *)
(***************************************************************************)
RUNTIME_DURATION_SECONDS == 600
MAX_FIX_ATTEMPTS == 3
NORMAL_CLOSURE == 1000

(***************************************************************************)
(* Bounds of the model.                                                    *)
(***************************************************************************)
MaxSessions == 1      \* start requests accepted in one run
MaxUserOps == 1       \* user commands issued from the BotRunner panel
MaxPlanFiles == 1     \* files in a plan returned by generateStructure
MaxPatch == 1         \* entries of fixed_files in one repair answer
MaxLines == 2         \* BUILD_LOG messages delivered on one connection
MaxTicks == 1         \* countdown ticks explored in the general specification
MaxRunFails == 1      \* failures of the runtime controller's start call
MaxStreamEvents == 1  \* messages delivered on the runtime log stream
MaxPending == 2       \* suspended calls of one kind at a time
MaxPipelines == 1     \* suspended intake / generation calls at a time
MaxConns == 2         \* connections that can still raise an event, at a time
MaxLeaks == 1         \* leaked timers, and leaked streams, at a time
MaxRebuilds == 2      \* clicks on Rebuild in the rebuild specification
MaxFnLen == 2         \* length of the lists a function is applied to on its own
MaxEmptyStarts == 2   \* start requests made with an empty prompt or token
MaxProgress == 3      \* progress events of one image build

BuildStates == {"IDLE", "VALIDATING", "GATHERING_CONFIG", "PLANNING", "CODING",
                "BUILDING", "RUNNING", "DEBUGGING", "SUCCESS", "ERROR"}

NumStr(n) == IF n = 0 THEN "0" ELSE IF n = 1 THEN "1" ELSE IF n = 2 THEN "2"
             ELSE IF n = 3 THEN "3" ELSE IF n = 4 THEN "4" ELSE "many"

(***************************************************************************)
(* Text.  A file's code is the sequence of its lines (the string split at  *)
(* '\n'); a line is one of a few short strings.  trim removes surrounding  *)
(* blanks.                                                                 *)
(***************************************************************************)
trim(l) == IF l = " " THEN "" ELSE IF l = " requests" THEN "requests" ELSE l

\* A text is the sequence of its lines; the empty string is the empty sequence.
EmptyStr == <<>>

Front(q) == SubSeq(q, 1, Len(q) - 1)

\* text + line + '\n', for a text that is empty or ends with '\n'
AppendLine(text, line) ==
  (IF text = EmptyStr THEN <<>> ELSE Front(text)) \o <<line, "">>

\* message is the fixed wording of the entry; arg is the interpolated text (lines).
LogEntry(message, arg, type) == [message |-> message, arg |-> arg, type |-> type]

(***************************************************************************)
(* State of App (useState), refs (useRef), and what is in flight.          *)
(***************************************************************************)
VARIABLES
  prompt, token, tokenError, requiredSecrets,             \* form state
  buildState, logs, generatedFiles, hasUnrebuiltChanges,  \* build state
  buildLoopAttempt, currentBuildFiles, lastBuildError,    \* refs of the build loop
  runtimeState, runtimeLogs, countdown, botMetadata,      \* runtime state
  countdownIntervalRef, runtimeLogStreamRef,              \* refs of the runtime
  conns,            \* WebSockets opened by buildBot that can still raise an event
  leakedTimers,     \* live intervals no ref points to any more
  leakedStreams,    \* open EventSources no ref points to any more
  gens,             \* suspended handleStartConfiguration / startCodeGeneration calls
  debugPending,     \* runDebugStep calls suspended at debugCode
  startPending,     \* startBot calls suspended at backend.runBot
  stopPending,      \* stopBot calls suspended at backend.stopBot, with their callers
  restartPending,   \* setTimeout(startBot) of restartBot not yet fired
  sess,             \* history: calls made since the last resetBuild
  hist,             \* history: counters of the whole run
  calc,             \* a function applied on its own: its arguments and results
  srv               \* the build executor's handler of one request (part_002)

appVars == <<prompt, token, tokenError, requiredSecrets, buildState, logs, generatedFiles,
          hasUnrebuiltChanges, buildLoopAttempt, currentBuildFiles, lastBuildError,
          runtimeState, runtimeLogs, countdown, botMetadata, countdownIntervalRef,
          runtimeLogStreamRef, conns, leakedTimers, leakedStreams, gens, debugPending,
          startPending, stopPending, restartPending, sess, hist>>

vars == <<appVars, calc, srv>>

\* The current state as one record; handlers are operators from record to record.
Cur == [prompt |-> prompt, token |-> token, tokenError |-> tokenError,
        requiredSecrets |-> requiredSecrets, buildState |-> buildState, logs |-> logs,
        generatedFiles |-> generatedFiles, hasUnrebuiltChanges |-> hasUnrebuiltChanges,
        buildLoopAttempt |-> buildLoopAttempt, currentBuildFiles |-> currentBuildFiles,
        lastBuildError |-> lastBuildError, runtimeState |-> runtimeState,
        runtimeLogs |-> runtimeLogs, countdown |-> countdown, botMetadata |-> botMetadata,
        countdownIntervalRef |-> countdownIntervalRef,
        runtimeLogStreamRef |-> runtimeLogStreamRef, conns |-> conns,
        leakedTimers |-> leakedTimers, leakedStreams |-> leakedStreams, gens |-> gens,
        debugPending |-> debugPending, startPending |-> startPending,
        stopPending |-> stopPending, restartPending |-> restartPending,
        sess |-> sess, hist |-> hist]

NoSess == [builds |-> 0, buildOks |-> 0, repairs |-> 0, repairFails |-> 0, genLogs |-> 0]

InitApp ==
  /\ prompt = "" /\ token = "" /\ tokenError = "null" /\ requiredSecrets = <<>>
  /\ buildState = "IDLE" /\ logs = <<>> /\ generatedFiles = <<>>
  /\ hasUnrebuiltChanges = FALSE
  /\ buildLoopAttempt = 0 /\ currentBuildFiles = <<>> /\ lastBuildError = EmptyStr
  /\ runtimeState = "STOPPED" /\ runtimeLogs = <<>>
  /\ countdown = RUNTIME_DURATION_SECONDS /\ botMetadata = "null"
  /\ countdownIntervalRef = "null" /\ runtimeLogStreamRef = "null"
  /\ conns = <<>> /\ leakedTimers = 0 /\ leakedStreams = 0
  /\ gens = <<>> /\ debugPending = <<>> /\ startPending = 0
  /\ stopPending = <<>> /\ restartPending = <<>>
  /\ sess = NoSess
  /\ hist = [sessions |-> 0, userOps |-> 0, rebuilds |-> 0, runFails |-> 0,
             streamEvents |-> 0, stopCalls |-> 0, resets |-> 0, emptyStarts |-> 0]

\* no function is being applied on its own
NoCalc == [fn |-> "none", a |-> <<>>, b |-> <<>>, outs |-> <<>>]

\* the executor before a build request; rs is the readyState of its end of the socket
NoSrv == [pc |-> "idle", rs |-> "OPEN", timer |-> "none", sent |-> <<>>, events |-> 0]

Init == InitApp /\ calc = NoCalc /\ srv = NoSrv

RemoveAt(q, i) == SubSeq(q, 1, i - 1) \o SubSeq(q, i + 1, Len(q))

(***************************************************************************)
(* Logs and resets (lines 68-98).                                          *)
(***************************************************************************)
addLog(s, message, arg, type) ==
  [s EXCEPT !.logs = Append(@, LogEntry(message, arg, type))]

addRuntimeLog(s, message, arg, type) ==
  [s EXCEPT !.runtimeLogs = Append(@, LogEntry(message, arg, type))]

resetBuild(s) ==
  [s EXCEPT !.buildState = "IDLE", !.logs = <<>>, !.generatedFiles = <<>>,
            !.tokenError = "null", !.buildLoopAttempt = 0, !.currentBuildFiles = <<>>,
            !.lastBuildError = EmptyStr, !.requiredSecrets = <<>>,
            !.hasUnrebuiltChanges = FALSE]

\* clearInterval(ref.current) leaves the id in the ref; the stream ref is set to null.
clearCountdownInterval(s) ==
  [s EXCEPT !.countdownIntervalRef = IF @ = "live" THEN "cleared" ELSE @]

closeRuntimeLogStream(s) == [s EXCEPT !.runtimeLogStreamRef = "null"]

\* variant: the countdown is left where it stands
resetRuntimeKeepsCountdown(s) ==
  [closeRuntimeLogStream(clearCountdownInterval(s))
     EXCEPT !.runtimeState = "STOPPED", !.runtimeLogs = <<>>, !.botMetadata = "null"]

resetRuntime(s) ==
  [closeRuntimeLogStream(clearCountdownInterval(s))
     EXCEPT !.runtimeState = "STOPPED", !.runtimeLogs = <<>>,
            !.countdown = RUNTIME_DURATION_SECONDS, !.botMetadata = "null"]

(***************************************************************************)
(* backendService.buildBot, lines 12-49: the connection is created, the    *)
(* watchdog armed; the socket events are the Conn actions below.           *)
(***************************************************************************)
NewConn(files) ==
  [rs |-> "CONNECTING", completed |-> FALSE, timer |-> TRUE, acc |-> EmptyStr,
   lines |-> 0, fired |-> 0, files |-> files]

buildBot(s, files) ==
  [addLog(s, "Connecting to build server...", <<>>, "log")
     EXCEPT !.conns = Append(@, NewConn(files)),
            !.sess.builds = @ + 1,
            !.sess.genLogs = IF s.sess.builds = 0 THEN Len(s.logs) ELSE @]

(***************************************************************************)
(* The build / debug loop (lines 165-236).                                 *)
(***************************************************************************)
\* variant: starting a build attempt marks the files as built
runBuildStepClearsChanges(s, filesToBuild) ==
  buildBot([s EXCEPT !.buildState = "BUILDING", !.currentBuildFiles = filesToBuild,
                     !.hasUnrebuiltChanges = FALSE],
           filesToBuild)

runBuildStep(s, filesToBuild) ==
  buildBot([s EXCEPT !.buildState = "BUILDING", !.currentBuildFiles = filesToBuild],
           filesToBuild)

\* variant: a successful build also clears the attempt counter
onCompleteClearsAttempt(s) ==
  [s EXCEPT !.buildState = "SUCCESS", !.hasUnrebuiltChanges = FALSE,
            !.buildLoopAttempt = 0, !.sess.buildOks = @ + 1]

onComplete(s) ==
  [s EXCEPT !.buildState = "SUCCESS", !.hasUnrebuiltChanges = FALSE,
            !.sess.buildOks = @ + 1]

\* runDebugStep up to its await: geminiService.debugCode is called with the refs' values.
runDebugStep(s) ==
  LET s1 == [s EXCEPT !.buildState = "DEBUGGING"]
      s2 == addLog(s1, "AI Debugger (Attempt %s/%s): Analyzing build error...",
                   <<NumStr(s.buildLoopAttempt), NumStr(MAX_FIX_ATTEMPTS - 1)>>, "log")
  IN  [s2 EXCEPT !.debugPending = Append(@, [files |-> s.currentBuildFiles,
                                             errorLog |-> s.lastBuildError]),
                 !.sess.repairs = @ + 1]

\* variant: the attempt budget is compared with > instead of >=
handleBuildErrorOneMore(s, errorLog) ==
  LET s3 == [s EXCEPT !.lastBuildError = errorLog, !.buildLoopAttempt = @ + 1]
  IN  IF s3.buildLoopAttempt > MAX_FIX_ATTEMPTS
      THEN [s3 EXCEPT !.buildState = "ERROR"]
      ELSE runDebugStep(s3)

\* variant: at exhaustion only the final error is kept, not the message of this attempt
handleBuildErrorKeepsFirst(s, errorLog) ==
  LET s1 == addLog(s, "Build failed (Attempt %s).",
                   <<NumStr(s.buildLoopAttempt + 1)>>, "error")
      s2 == addLog(s1, "%s", errorLog, "raw")
      s3 == [s2 EXCEPT !.buildLoopAttempt = @ + 1,
                       !.lastBuildError = IF @ = EmptyStr THEN errorLog ELSE @]
  IN  IF s3.buildLoopAttempt >= MAX_FIX_ATTEMPTS
      THEN LET s4 == addLog(s3, "Unable to fix the build after %s attempts.",
                            <<NumStr(MAX_FIX_ATTEMPTS - 1)>>, "error")
               s5 == addLog(s4, "Final build error details:", <<>>, "error")
               s6 == addLog(s5, "%s", s3.lastBuildError, "raw")
           IN  [s6 EXCEPT !.buildState = "ERROR"]
      ELSE runDebugStep(s3)

handleBuildError(s, errorLog) ==
  LET s1 == addLog(s, "Build failed (Attempt %s).",
                   <<NumStr(s.buildLoopAttempt + 1)>>, "error")
      s2 == addLog(s1, "%s", errorLog, "raw")
      s3 == [s2 EXCEPT !.lastBuildError = errorLog, !.buildLoopAttempt = @ + 1]
  IN  IF s3.buildLoopAttempt >= MAX_FIX_ATTEMPTS
      THEN LET s4 == addLog(s3, "Unable to fix the build after %s attempts.",
                            <<NumStr(MAX_FIX_ATTEMPTS - 1)>>, "error")
               s5 == addLog(s4, "Final build error details:", <<>>, "error")
               s6 == addLog(s5, "%s", s3.lastBuildError, "raw")
           IN  [s6 EXCEPT !.buildState = "ERROR"]
      ELSE runDebugStep(s3)

\* findIndex: the first position whose file has the name, 0 when there is none
findIndex(files, name) ==
  IF \E i \in 1..Len(files) : files[i].name = name
  THEN CHOOSE i \in 1..Len(files) :
         /\ files[i].name = name
         /\ \A j \in 1..(i - 1) : files[j].name # name
  ELSE 0

\* variant: a fixed file is always pushed, the file of the same name removed
applyFixedFilePushes(s, files, fixedFile) ==
  [s |-> s,
   files |-> Append(SelectSeq(files, LAMBDA f : f.name # fixedFile.name),
                    [name |-> fixedFile.name, code |-> fixedFile.code])]

\* lines 208-217, one fixed file: replace in place or push (files is updatedFiles)
applyFixedFile(s, files, fixedFile) ==
  LET fileIndex == findIndex(files, fixedFile.name)
      entry == [name |-> fixedFile.name, code |-> fixedFile.code]
  IN  IF fileIndex # 0
      THEN [s |-> addLog(s, "- Applying fix to %s: %s",
                         <<fixedFile.name, fixedFile.changes_summary>>, "log"),
            files |-> [files EXCEPT ![fileIndex] = entry]]
      ELSE [s |-> addLog(s, "- AI added new file %s: %s",
                         <<fixedFile.name, fixedFile.changes_summary>>, "log"),
            files |-> Append(files, entry)]

RECURSIVE applyFixedFiles(_, _, _)
applyFixedFiles(s, files, fixed) ==
  IF fixed = <<>> THEN [s |-> s, files |-> files]
  ELSE LET r == applyFixedFile(s, files, Head(fixed))
       IN  applyFixedFiles(r.s, r.files, Tail(fixed))

\* new Set(array): the elements in order of first occurrence
RECURSIVE SetOf(_)
SetOf(q) ==
  IF q = <<>> THEN <<>>
  ELSE LET rest == SetOf(Front(q))
           x == q[Len(q)]
       IN  IF \E i \in 1..Len(rest) : rest[i] = x THEN rest ELSE Append(rest, x)

SelectNonEmpty(q) == SelectSeq(q, LAMBDA l : l # "")

\* lines 223-225: code.split('\n').map(trim).filter(Boolean), add each req, join('\n')
unionRequirements(code, updated_requirements) ==
  LET existingReqs == SetOf(SelectNonEmpty([i \in 1..Len(code) |-> trim(code[i])]))
  IN  SetOf(existingReqs \o updated_requirements)

\* lines 219-227
updateRequirements(s, files, updated_requirements) ==
  LET reqsIndex == findIndex(files, "requirements.txt")
  IN  IF Len(updated_requirements) > 0 /\ reqsIndex # 0
      THEN [s |-> addLog(s, "- Updating requirements.txt with: %s",
                         updated_requirements, "log"),
            files |-> [files EXCEPT ![reqsIndex].code =
                         unionRequirements(@, updated_requirements)]]
      ELSE [s |-> s, files |-> files]

\* Math.round(confidence * 100) of the confidence values the model draws
ConfidencePercent(confidence) ==
  IF confidence = "0.9" THEN "90" ELSE IF confidence = "0.5" THEN "50" ELSE "NaN"

\* variant: an answer without patched files is applied like any other
runDebugStepResumeAcceptsEmpty(s, fixData) ==
  IF ~fixData.ok
  THEN [s EXCEPT !.buildState = "ERROR", !.sess.repairFails = @ + 1]
  ELSE runBuildStep([s EXCEPT !.sess.repairFails =
                                 IF Len(fixData.fixed_files) = 0 THEN @ + 1 ELSE @],
                    s.currentBuildFiles)

\* runDebugStep after its await; fixData.ok is FALSE when debugCode rejected
runDebugStepResume(s, fixData) ==
  IF ~fixData.ok
  THEN [addLog(s, "AI Debugger failed: %s", <<"Failed to get a valid JSON response">>,
               "error")
          EXCEPT !.buildState = "ERROR", !.sess.repairFails = @ + 1]
  ELSE IF Len(fixData.fixed_files) = 0
  THEN [addLog(s, "AI Debugger failed: %s", <<"AI could not determine a fix.">>, "error")
          EXCEPT !.buildState = "ERROR", !.sess.repairFails = @ + 1]
  ELSE LET s1 == addLog(s, "AI has proposed fixes with %s% confidence. Applying changes...",
                        <<ConfidencePercent(fixData.confidence)>>, "log")
           m  == applyFixedFiles(s1, s.currentBuildFiles, fixData.fixed_files)
           u  == updateRequirements(m.s, m.files, fixData.updated_requirements)
           s2 == [u.s EXCEPT !.generatedFiles = u.files]
           s3 == addLog(s2, "Fixes applied. Retrying build...", <<>>, "log")
       IN  runBuildStep(s3, u.files)

(***************************************************************************)
(* The runtime session (lines 100-157).  closure is the runtimeState of    *)
(* the render whose stopBot / startBot is being called.                    *)
(***************************************************************************)
\* stopBot up to its await of backend.stopBot; caller says who awaits the call
stopBot(s, closure, caller) ==
  IF closure = "STOPPED" THEN s
  ELSE LET s1 == addRuntimeLog(s, "Stopping bot...", <<>>, "log")
           s2 == clearCountdownInterval(closeRuntimeLogStream(s1))
       IN  [s2 EXCEPT !.stopPending = Append(@, caller),
                      !.hist.stopCalls = @ + 1]

\* variant: the check of line 114 is missing
startBotUnguarded(s, closure) ==
  LET s1 == [s EXCEPT !.runtimeState = "RUNNING", !.runtimeLogs = <<>>]
      s2 == addRuntimeLog(s1, "Starting bot session...", <<>>, "log")
  IN  [s2 EXCEPT !.startPending = @ + 1]

\* startBot up to its await of backend.runBot
startBot(s, closure) ==
  IF closure = "RUNNING" THEN s
  ELSE LET s1 == [s EXCEPT !.runtimeState = "RUNNING", !.runtimeLogs = <<>>]
           s2 == addRuntimeLog(s1, "Starting bot session...", <<>>, "log")
       IN  [s2 EXCEPT !.startPending = @ + 1]

\* startBot passes line 114 only in a render whose runtimeState is STOPPED, and the
\* stopBot its callbacks call (lines 128, 136) is the one of that same render.
stopBotOfStartBot(s) == stopBot(s, "STOPPED", [kind |-> "stop"])

\* startBot after backend.runBot settled (lines 122-146)
startBotResume(s, ok) ==
  IF ok
  THEN LET s1 == addRuntimeLog(s, "Bot container started successfully.", <<>>, "log")
       IN  [s1 EXCEPT !.startPending = @ - 1,
                      !.leakedStreams = IF s.runtimeLogStreamRef = "open" THEN @ + 1 ELSE @,
                      !.runtimeLogStreamRef = "open",
                      !.countdown = RUNTIME_DURATION_SECONDS,
                      !.leakedTimers = IF s.countdownIntervalRef = "live" THEN @ + 1 ELSE @,
                      !.countdownIntervalRef = "live"]
  ELSE [addRuntimeLog(s, "Failed to start bot: %s", <<"Failed to start bot on server">>,
                      "error")
          EXCEPT !.startPending = @ - 1, !.runtimeState = "STOPPED",
                 !.hist.runFails = @ + 1]

\* variant: the callback subtracts one whatever the countdown is
countdownTickUnclamped(s) ==
  IF s.countdown <= 1
  THEN [stopBotOfStartBot(s) EXCEPT !.countdown = @ - 1]
  ELSE [s EXCEPT !.countdown = @ - 1]

\* the interval callback of lines 133-141
countdownTick(s) ==
  IF s.countdown <= 1
  THEN [stopBotOfStartBot(s) EXCEPT !.countdown = 0]
  ELSE [s EXCEPT !.countdown = @ - 1]

\* the stream's error callback (lines 126-129); streamRuntimeLogs then closes it
onStreamError(s) ==
  stopBotOfStartBot(addRuntimeLog(s, "Log stream disconnected.", <<>>, "error"))

\* variant: no effect starts the bot after a successful build
autoStartEffectAbsent(old, s) == s

\* the effect of lines 355-359, run after the render that follows a task; old is the
\* state of the previous render (the effect runs only when a dependency changed)
autoStartEffect(old, s) ==
  IF /\ s.buildState = "SUCCESS" /\ s.runtimeState # "RUNNING"
     /\ (s.buildState # old.buildState \/ s.runtimeState # old.runtimeState)
  THEN startBot(s, s.runtimeState)
  ELSE s

(***************************************************************************)
(* Handlers of the BotRunner panel (lines 149-163, 324-345, 422-433).      *)
(***************************************************************************)
IncludesConnecting(str) == str = "Connecting to build server..."

EntryIncludesConnecting(l) ==
  \/ IncludesConnecting(l.message)
  \/ \E i \in 1..Len(l.arg) : IncludesConnecting(l.arg[i])

\* logs.findIndex(l => l.message.includes('Connecting to build server')), 0 for -1
firstBuildLogIndex(ls) ==
  IF \E i \in 1..Len(ls) : EntryIncludesConnecting(ls[i])
  THEN CHOOSE i \in 1..Len(ls) :
         /\ EntryIncludesConnecting(ls[i])
         /\ \A j \in 1..(i - 1) : ~EntryIncludesConnecting(ls[j])
  ELSE 0

Slice(q, n) == SubSeq(q, 1, IF n < Len(q) THEN n ELSE Len(q))

\* handleRebuild after stopBot returned (lines 337-344); files and index are the
\* generatedFiles and findIndex result of the render in which Rebuild was clicked
rebuildAfterStop(s, files, index) ==
  LET s1 == resetRuntime(s)
      s2 == [s1 EXCEPT !.logs = IF index > 0 THEN Slice(@, index - 1) ELSE @,
                       !.buildLoopAttempt = 0, !.lastBuildError = EmptyStr]
  IN  runBuildStep(s2, files)

handleRebuild(s) ==
  LET s1 == addLog(s, "Rebuilding bot with your changes...", <<>>, "log")
      index == firstBuildLogIndex(s.logs)
  IN  IF s.runtimeState # "STOPPED"
      THEN stopBot(s1, s.runtimeState,
                   [kind |-> "rebuild", files |-> s.generatedFiles, index |-> index])
      ELSE rebuildAfterStop(s1, s.generatedFiles, index)

\* handleReset after stopBot returned (lines 161-162)
resetAfterStop(s) == [resetRuntime(resetBuild(s)) EXCEPT !.hist.resets = @ + 1]

handleReset(s) ==
  IF s.runtimeState # "STOPPED"
  THEN stopBot(s, s.runtimeState, [kind |-> "reset"])
  ELSE resetAfterStop(s)

\* restartBot after stopBot returned: setTimeout(() => startBot(), 1000)
restartAfterStop(s, closure) == [s EXCEPT !.restartPending = Append(@, closure)]

restartBot(s) ==
  LET s1 == addRuntimeLog(s, "Restarting bot...", <<>>, "log")
  IN  IF s.runtimeState = "RUNNING"
      THEN stopBot(s1, s.runtimeState, [kind |-> "restart", closure |-> s.runtimeState])
      ELSE restartAfterStop(s1, s.runtimeState)

\* stopBot after backend.stopBot settled (lines 109-110), then its caller's remainder;
\* outcome "reject" is a failed fetch: the exception ends stopBot and its caller
stopBotResume(s, i, outcome) ==
  LET caller == s.stopPending[i]
      s0 == [s EXCEPT !.stopPending = RemoveAt(@, i)]
      s1 == [s0 EXCEPT !.runtimeState = "STOPPED"]
      s2 == addRuntimeLog(s1, "Bot stopped successfully.", <<>>, "log")
  IN  IF outcome = "reject" THEN s0
      ELSE IF caller.kind = "reset" THEN resetAfterStop(s2)
      ELSE IF caller.kind = "rebuild" THEN rebuildAfterStop(s2, caller.files, caller.index)
      ELSE IF caller.kind = "restart" THEN restartAfterStop(s2, caller.closure)
      ELSE s2

handleFileUpdate(s, fileName, newCode) ==
  LET s1 == [s EXCEPT !.generatedFiles =
                        [i \in 1..Len(@) |->
                           IF @[i].name = fileName
                           THEN [name |-> @[i].name, code |-> newCode] ELSE @[i]],
                      !.hasUnrebuiltChanges = TRUE]
  IN  addLog(s1, "Saved changes to %s. Click 'Rebuild' to apply them.", <<fileName>>, "log")

onClearLogs(s) ==
  IF s.buildState = "ERROR"
  THEN LET index == firstBuildLogIndex(s.logs)
       IN  [s EXCEPT !.logs = IF index > 0 THEN SubSeq(s.logs, 1, index - 1) ELSE <<>>]
  ELSE [s EXCEPT !.runtimeLogs = <<>>]

(***************************************************************************)
(* Intake and generation (lines 238-322).  A suspended call is a record    *)
(* [pc, todo, filesToBuild]: the call it awaits, the plan's files not yet  *)
(* generated, and the local array filesToBuild.                            *)
(***************************************************************************)
SetGen(s, i, pc, todo, files) ==
  [s EXCEPT !.gens[i] = [pc |-> pc, todo |-> todo, filesToBuild |-> files]]

EndGen(s, i) == [s EXCEPT !.gens = RemoveAt(@, i)]

\* variant: the check of the two inputs (lines 279-282) is missing
handleStartConfigurationUnguarded(s) ==
  LET s1 == resetRuntime(resetBuild(s))
      s2 == addLog(s1, "Starting build process...", <<>>, "log")
      s3 == [s2 EXCEPT !.buildState = "VALIDATING"]
      s4 == addLog(s3, "Validating Telegram token...", <<>>, "log")
  IN  [s4 EXCEPT !.gens = Append(@, [pc |-> "getBotMetadata", todo |-> <<>>,
                                     filesToBuild |-> <<>>]),
                 !.sess = NoSess,
                 !.hist.sessions = @ + 1, !.hist.resets = 0]

\* lines 278-290, up to the await of backend.getBotMetadata
handleStartConfiguration(s) ==
  IF s.prompt = "" \/ s.token = ""
  THEN [addLog(s, "Prompt and token are required.", <<>>, "error")
          EXCEPT !.hist.emptyStarts = @ + 1]
  ELSE LET s1 == resetRuntime(resetBuild(s))
           s2 == addLog(s1, "Starting build process...", <<>>, "log")
           s3 == [s2 EXCEPT !.buildState = "VALIDATING"]
           s4 == addLog(s3, "Validating Telegram token...", <<>>, "log")
       IN  [s4 EXCEPT !.gens = Append(@, [pc |-> "getBotMetadata", todo |-> <<>>,
                                          filesToBuild |-> <<>>]),
                      !.sess = NoSess,
                      !.hist.sessions = @ + 1, !.hist.resets = 0]

\* lines 291-303, up to the await of extractRequiredSecrets
getBotMetadataResume(s, i, res) ==
  IF res.ok
  THEN LET s1 == [s EXCEPT !.botMetadata = "meta"]
           s2 == addLog(s1, "Token validated successfully.", <<>>, "log")
           s3 == addLog(s2, "Analyzing prompt for additional configuration...", <<>>, "log")
       IN  SetGen(s3, i, "extractRequiredSecrets", <<>>, <<>>)
  ELSE LET s1 == addLog(s, "Token validation failed: %s", <<"Unauthorized">>, "error")
       IN  EndGen([s1 EXCEPT !.tokenError = "Unauthorized", !.buildState = "IDLE"], i)

\* lines 239-244, up to the await of generateStructure
startCodeGeneration(s, i) ==
  LET s1 == [s EXCEPT !.buildState = "PLANNING", !.buildLoopAttempt = 0,
                      !.lastBuildError = EmptyStr]
      s2 == addLog(s1, "Analyzing requirements and planning bot structure...", <<>>, "log")
  IN  SetGen(s2, i, "generateStructure", <<>>, <<>>)

\* lines 303-316
extractRequiredSecretsResume(s, i, res) ==
  IF ~res.ok
  THEN EndGen([addLog(s, "Failed during configuration analysis: %s",
                      <<"Failed to get a valid JSON response">>, "error")
                 EXCEPT !.buildState = "ERROR"], i)
  ELSE IF Len(res.secrets) > 0
  THEN LET s1 == addLog(s, "Found %s additional configuration(s) required.",
                        <<NumStr(Len(res.secrets))>>, "log")
       IN  EndGen([s1 EXCEPT !.requiredSecrets = res.secrets,
                             !.buildState = "GATHERING_CONFIG"], i)
  ELSE startCodeGeneration(
         addLog(s, "No additional configuration required. Starting code generation...",
                <<>>, "log"), i)

\* variant: the failure is logged and what was generated so far is built
generationFailedBuildsPartial(s, i) ==
  runBuildStep(EndGen(addLog(s, "Failed during code generation: %s",
                             <<"Failed to get a valid JSON response">>, "error"), i),
               s.generatedFiles)

\* the catch of lines 271-275
generationFailed(s, i) ==
  EndGen([addLog(s, "Failed during code generation: %s",
                 <<"Failed to get a valid JSON response">>, "error")
            EXCEPT !.buildState = "ERROR"], i)

\* the step after the loop of lines 250-256 has no file left: lines 258-259
awaitNextFile(s, i, todo, files) ==
  IF todo # <<>> THEN SetGen(s, i, "generateFileCode", todo, files)
  ELSE SetGen(addLog(s, "Generating setup files...", <<>>, "log"), i,
              "generateSetupFiles", <<>>, files)

\* lines 245-251
generateStructureResume(s, i, res) ==
  IF ~res.ok THEN generationFailed(s, i)
  ELSE LET s1 == addLog(s, "Bot structure planned successfully.", <<>>, "log")
           s2 == [s1 EXCEPT !.buildState = "CODING"]
           s3 == addLog(s2, "Found %s files to generate.", <<NumStr(Len(res.files))>>, "log")
       IN  awaitNextFile(s3, i, res.files, <<>>)

\* lines 251-256
generateFileCodeResume(s, i, res) ==
  IF ~res.ok THEN generationFailed(s, i)
  ELSE LET newFile == [name |-> res.file_name, code |-> res.code]
           s1 == [s EXCEPT !.generatedFiles = Append(@, newFile)]
           s2 == addLog(s1, "- Generating code for %s", <<newFile.name>>, "log")
       IN  awaitNextFile(s2, i, Tail(s.gens[i].todo), Append(s.gens[i].filesToBuild, newFile))

\* lines 259-270
generateSetupFilesResume(s, i, res) ==
  IF ~res.ok THEN generationFailed(s, i)
  ELSE LET setupFilesData ==
             << [name |-> "requirements.txt", code |-> res.requirements_txt],
                [name |-> "Dockerfile", code |-> res.dockerfile],
                [name |-> "docker-compose.yml", code |-> res.docker_compose_yml],
                [name |-> "README.md", code |-> res.readme_md] >>
           filesToBuild == s.gens[i].filesToBuild \o setupFilesData
           s1 == [s EXCEPT !.generatedFiles = @ \o setupFilesData]
           s2 == addLog(s1, "All files generated.", <<>>, "log")
       IN  runBuildStep(EndGen(s2, i), filesToBuild)

(***************************************************************************)
(* Socket events of one connection (backendService.ts lines 32-104).  c is *)
(* the position of the connection in conns.  The callbacks are those       *)
(* runBuildStep passed: onProgress = addLog, onComplete, handleBuildError. *)
(***************************************************************************)
onProgress(s, log) == addLog(s, "%s", <<log>>, "log")

\* onError / onComplete are called through here; fired counts the calls
resolveError(s, c, errorLog) ==
  handleBuildError([s EXCEPT !.conns[c].completed = TRUE, !.conns[c].fired = @ + 1],
                   errorLog)

\* variant: the marker is looked for without lowering the case of the line
IncludesErrorCaseSensitive(line) == line \in {"error again"}

\* data.line.toLowerCase().includes('error')
IncludesError(line) == line \in {"ERROR: pip failed", "error again"}

\* lines 32-40
onTimeout(s, c) ==
  LET s1 == [s EXCEPT !.conns[c].timer = FALSE]
  IN  IF s.conns[c].rs \notin {"CLOSED", "CLOSING"}
      THEN LET s2 == [s1 EXCEPT !.conns[c].rs = "CLOSING"]
           IN  IF ~s.conns[c].completed
               THEN resolveError(s2, c, <<"Build request timed out after 120 seconds.">>)
               ELSE s2
      ELSE s1

\* lines 46-49
onOpen(s, c) == [s EXCEPT !.conns[c].rs = "OPEN"]

\* lines 51-87
onMessage(s, c, data) ==
  IF data.type = "BUILD_LOG"
  THEN LET s1 == onProgress(s, data.line)
       IN  [s1 EXCEPT !.conns[c].lines = @ + 1,
                      !.conns[c].acc = IF IncludesError(data.line)
                                       THEN AppendLine(@, data.line) ELSE @]
  ELSE IF data.type = "BUILD_DONE"
  THEN LET s1 == [s EXCEPT !.conns[c].timer = FALSE]
           s2 == IF ~s.conns[c].completed
                 THEN onComplete([onProgress(s1, "Build complete")
                                    EXCEPT !.conns[c].completed = TRUE,
                                           !.conns[c].fired = @ + 1])
                 ELSE s1
       IN  [s2 EXCEPT !.conns[c].rs = "CLOSING"]
  ELSE IF data.type = "BUILD_ERROR"
  THEN LET s1 == [s EXCEPT !.conns[c].timer = FALSE]
           errorLog == IF data.message # EmptyStr THEN data.message
                       ELSE IF s.conns[c].acc # EmptyStr THEN s.conns[c].acc
                       ELSE <<"Unknown build error.">>
           s2 == IF ~s.conns[c].completed THEN resolveError(s1, c, errorLog) ELSE s1
       IN  [s2 EXCEPT !.conns[c].rs = "CLOSING"]
  ELSE IF data.type = "unparseable"
  THEN [onProgress(s, "Error processing message from server")
          EXCEPT !.conns[c].lines = @ + 1]
  ELSE s

\* variant: a transport error only cleans up and reports nothing
onSocketErrorSilent(s, c) ==
  [s EXCEPT !.conns[c].timer = FALSE, !.conns[c].rs = "CLOSING"]

\* lines 89-96; the browser closes the socket after an error event
onSocketError(s, c) ==
  LET s1 == [s EXCEPT !.conns[c].timer = FALSE, !.conns[c].rs = "CLOSING"]
  IN  IF ~s.conns[c].completed
      THEN resolveError(s1, c, <<"WebSocket connection failed.">>)
      ELSE s1

\* variant: an unexpected close reports an error whether or not an outcome was reported
onCloseUnguarded(s, c, code) ==
  LET s1 == [s EXCEPT !.conns[c].timer = FALSE, !.conns[c].rs = "CLOSED"]
  IN  IF code # NORMAL_CLOSURE
      THEN resolveError(s1, c, <<"Build connection closed unexpectedly.">>)
      ELSE s1

\* lines 98-104
onClose(s, c, code) ==
  LET s1 == [s EXCEPT !.conns[c].timer = FALSE, !.conns[c].rs = "CLOSED"]
  IN  IF ~s.conns[c].completed /\ code # NORMAL_CLOSURE
      THEN resolveError(s1, c, <<"Build connection closed unexpectedly.">>)
      ELSE s1

(***************************************************************************)
(* One task.  After the handler the effect runs; connections that can      *)
(* raise no further event and have reported their outcome are forgotten.   *)
(***************************************************************************)
Spent(conn) == conn.rs = "CLOSED" /\ ~conn.timer /\ conn.completed

forget(s) == [s EXCEPT !.conns = SelectSeq(@, LAMBDA conn : ~Spent(conn))]

WithinBounds(s) ==
  /\ Len(s.gens) <= MaxPipelines
  /\ Len(s.conns) <= MaxConns
  /\ Len(s.debugPending) <= MaxPending
  /\ s.startPending <= MaxPending
  /\ Len(s.stopPending) <= MaxPending
  /\ Len(s.restartPending) <= MaxPending
  /\ s.leakedTimers <= MaxLeaks
  /\ s.leakedStreams <= MaxLeaks
  /\ s.hist.sessions <= MaxSessions
  /\ s.hist.runFails <= MaxRunFails
  /\ s.hist.streamEvents <= MaxStreamEvents
  /\ s.hist.emptyStarts <= MaxEmptyStarts

Commit(handled) ==
  LET s == forget(autoStartEffect(Cur, handled)) IN
  /\ WithinBounds(s)
  /\ prompt' = s.prompt /\ token' = s.token /\ tokenError' = s.tokenError
  /\ requiredSecrets' = s.requiredSecrets /\ buildState' = s.buildState
  /\ logs' = s.logs /\ generatedFiles' = s.generatedFiles
  /\ hasUnrebuiltChanges' = s.hasUnrebuiltChanges
  /\ buildLoopAttempt' = s.buildLoopAttempt
  /\ currentBuildFiles' = s.currentBuildFiles /\ lastBuildError' = s.lastBuildError
  /\ runtimeState' = s.runtimeState /\ runtimeLogs' = s.runtimeLogs
  /\ countdown' = s.countdown /\ botMetadata' = s.botMetadata
  /\ countdownIntervalRef' = s.countdownIntervalRef
  /\ runtimeLogStreamRef' = s.runtimeLogStreamRef
  /\ conns' = s.conns /\ leakedTimers' = s.leakedTimers
  /\ leakedStreams' = s.leakedStreams /\ gens' = s.gens
  /\ debugPending' = s.debugPending /\ startPending' = s.startPending
  /\ stopPending' = s.stopPending /\ restartPending' = s.restartPending
  /\ sess' = s.sess /\ hist' = s.hist /\ calc' = calc /\ srv' = srv

UserOp(s) == [s EXCEPT !.hist.userOps = @ + 1]

(***************************************************************************)
(* What the collaborators may answer.                                      *)
(***************************************************************************)
SeqsUpTo(S, n) == UNION {[1..k -> S] : k \in 0..n}

Failure == [ok |-> FALSE]

MetadataResults == {Failure, [ok |-> TRUE]}

SecretsResults == {Failure, [ok |-> TRUE, secrets |-> <<>>],
                   [ok |-> TRUE, secrets |-> <<"OPENWEATHER_API_KEY">>]}

StructureResults ==
  {Failure} \cup {[ok |-> TRUE, files |-> p] : p \in SeqsUpTo({"main.py"}, MaxPlanFiles)}

\* the name in the answer is the compiler's, not necessarily the plan's
FileCodeResults ==
  {Failure} \cup {[ok |-> TRUE, file_name |-> n, code |-> <<"print(1)">>] :
                    n \in {"main.py", "requirements.txt"}}

SetupFilesResults ==
  {Failure, [ok |-> TRUE, requirements_txt |-> <<"aiogram==3.1", "requests">>,
             dockerfile |-> <<"FROM python:3.12-slim">>,
             docker_compose_yml |-> <<"version: '3.8'">>,
             readme_md |-> <<"## Overview">>]}

FixedFiles ==
  {[name |-> n, code |-> <<"print(2)">>, changes_summary |-> "add import"] :
     n \in {"main.py", "utils.py"}}

DebugResults ==
  {Failure} \cup
  {[ok |-> TRUE, fixed_files |-> f, updated_requirements |-> r, confidence |-> "0.9"] :
     f \in SeqsUpTo(FixedFiles, MaxPatch), r \in {<<>>, <<"requests", "aiohttp">>}}

BuildMessages ==
  {[type |-> "BUILD_LOG", line |-> l] : l \in {"Step 1/4", "ERROR: pip failed", "error again"}}
  \cup {[type |-> "BUILD_DONE"], [type |-> "unparseable"], [type |-> "OTHER"]}
  \cup {[type |-> "BUILD_ERROR", message |-> m] : m \in {EmptyStr, <<"exit code 1">>}}

CloseCodes == {NORMAL_CLOSURE, 1006}

EditedCodes == {<<"print(3)">>}

(***************************************************************************)
(* What is on screen (lines 361-439, PromptForm.tsx:100,                   *)
(* ProgressTracker.tsx:224-276).                                           *)
(***************************************************************************)
isBuilding ==
  buildState \in {"VALIDATING", "PLANNING", "CODING", "BUILDING", "DEBUGGING",
                  "GATHERING_CONFIG"}

PromptFormShown == buildState = "IDLE"

BotRunnerShown == buildState \in {"SUCCESS", "ERROR"}

RuntimeControlsShown == buildState = "SUCCESS"

\* the Rebuild button of BotRunner, in its error and its success layout
RebuildEnabled == BotRunnerShown /\ hasUnrebuiltChanges

(***************************************************************************)
(* Actions: user commands.                                                 *)
(***************************************************************************)
TypeInputs(p, t) ==
  /\ PromptFormShown /\ ~isBuilding
  /\ <<p, t>> # <<prompt, token>>
  /\ Commit([Cur EXCEPT !.prompt = p, !.token = t])

StartRequested ==
  /\ PromptFormShown /\ ~isBuilding /\ prompt # "" /\ token # ""
  /\ Commit(handleStartConfiguration(Cur))

\* onBuild called whatever the inputs hold: the handler has its own check
StartInvoked ==
  /\ PromptFormShown /\ ~isBuilding
  /\ Commit(handleStartConfiguration(Cur))

UserEdit(fileName, newCode) ==
  /\ BotRunnerShown
  /\ \E i \in 1..Len(generatedFiles) : generatedFiles[i].name = fileName
  /\ Commit(handleFileUpdate(Cur, fileName, newCode))

UserClearLogs ==
  /\ BotRunnerShown
  /\ Commit(UserOp(onClearLogs(Cur)))

UserRebuild ==
  /\ BotRunnerShown /\ hasUnrebuiltChanges
  /\ Commit([UserOp(handleRebuild(Cur)) EXCEPT !.hist.rebuilds = @ + 1])

UserReset ==
  /\ BotRunnerShown
  /\ Commit(UserOp(handleReset(Cur)))

UserStop ==
  /\ RuntimeControlsShown /\ runtimeState = "RUNNING"
  /\ Commit(UserOp(stopBot(Cur, runtimeState, [kind |-> "stop"])))

UserRestart ==
  /\ RuntimeControlsShown
  /\ Commit(UserOp(restartBot(Cur)))

(***************************************************************************)
(* Actions: answers of the credential verifier and the compiler.           *)
(***************************************************************************)
GetBotMetadataDone(i, res) ==
  /\ gens[i].pc = "getBotMetadata"
  /\ Commit(getBotMetadataResume(Cur, i, res))

ExtractRequiredSecretsDone(i, res) ==
  /\ gens[i].pc = "extractRequiredSecrets"
  /\ Commit(extractRequiredSecretsResume(Cur, i, res))

GenerateStructureDone(i, res) ==
  /\ gens[i].pc = "generateStructure"
  /\ Commit(generateStructureResume(Cur, i, res))

GenerateFileCodeDone(i, res) ==
  /\ gens[i].pc = "generateFileCode"
  /\ Commit(generateFileCodeResume(Cur, i, res))

GenerateSetupFilesDone(i, res) ==
  /\ gens[i].pc = "generateSetupFiles"
  /\ Commit(generateSetupFilesResume(Cur, i, res))

DebugCodeDone(i, fixData) ==
  Commit(runDebugStepResume([Cur EXCEPT !.debugPending = RemoveAt(@, i)], fixData))

(***************************************************************************)
(* Actions: events of a build connection.                                  *)
(***************************************************************************)
SocketOpen(c) ==
  /\ conns[c].rs = "CONNECTING"
  /\ Commit(onOpen(Cur, c))

SocketMessage(c, data) ==
  /\ conns[c].rs = "OPEN"
  /\ data.type \in {"BUILD_LOG", "unparseable"} => conns[c].lines < MaxLines
  /\ Commit(onMessage(Cur, c, data))

\* the connection fails: while connecting, while open, or during the closing handshake
SocketError(c) ==
  /\ conns[c].rs \in {"CONNECTING", "OPEN", "CLOSING"}
  /\ Commit(onSocketError(Cur, c))

\* the server or the network closes an open socket, or a closing handshake ends
SocketClose(c, code) ==
  /\ conns[c].rs \in {"OPEN", "CLOSING"}
  /\ Commit(onClose(Cur, c, code))

WatchdogTimeout(c) ==
  /\ conns[c].timer
  /\ Commit(onTimeout(Cur, c))

(***************************************************************************)
(* Actions: the runtime controller, the log stream, the timers.            *)
(***************************************************************************)
RunBotDone(ok) ==
  /\ startPending > 0
  /\ Commit(startBotResume(Cur, ok))

StopBotDone(i, outcome) ==
  Commit(stopBotResume(Cur, i, outcome))

RestartDelayElapsed(i) ==
  Commit(startBot([Cur EXCEPT !.restartPending = RemoveAt(@, i)], restartPending[i]))

LiveTimers == (IF countdownIntervalRef = "live" THEN 1 ELSE 0) + leakedTimers

LiveStreams == (IF runtimeLogStreamRef = "open" THEN 1 ELSE 0) + leakedStreams

CountdownTick ==
  /\ LiveTimers > 0
  /\ Commit(countdownTick(Cur))

StreamMessage ==
  /\ LiveStreams > 0
  /\ Commit([addRuntimeLog(Cur, "%s", <<"bot: hello">>, "bot")
               EXCEPT !.hist.streamEvents = @ + 1])

\* eventSource.onerror (backendService.ts lines 178-182) of the stream the ref
\* points to (leaked = FALSE) or of a leaked one
StreamError(leaked) ==
  /\ IF leaked THEN leakedStreams > 0 ELSE runtimeLogStreamRef = "open"
  /\ Commit([onStreamError(Cur)
               EXCEPT !.leakedStreams = IF leaked THEN @ - 1 ELSE @,
                      !.runtimeLogStreamRef = IF leaked THEN @ ELSE "closed",
                      !.hist.streamEvents = @ + 1])

(***************************************************************************)
(* Spec: the whole application, every user command and every collaborator, *)
(* with one answer of each kind per collaborator.                          *)
(***************************************************************************)
Ok(S) == {res \in S : res.ok}

PlainMessages == {[type |-> "BUILD_DONE"], [type |-> "BUILD_ERROR", message |-> <<"exit code 1">>]}

PlainFix ==
  {Failure, [ok |-> TRUE, updated_requirements |-> <<>>, confidence |-> "0.9",
             fixed_files |-> <<[name |-> "main.py", code |-> <<"print(2)">>,
                                changes_summary |-> "add import"]>>]}

PlainFileCode == {Failure, [ok |-> TRUE, file_name |-> "main.py", code |-> <<"print(1)">>]}

PlainStructure == {Failure, [ok |-> TRUE, files |-> <<"main.py">>]}

Next ==
  \/ TypeInputs("echo bot", "123:abc")
  \/ StartRequested
  \/ \E i \in 1..Len(gens), res \in MetadataResults : GetBotMetadataDone(i, res)
  \/ \E i \in 1..Len(gens), res \in SecretsResults : ExtractRequiredSecretsDone(i, res)
  \/ \E i \in 1..Len(gens), res \in PlainStructure : GenerateStructureDone(i, res)
  \/ \E i \in 1..Len(gens), res \in PlainFileCode : GenerateFileCodeDone(i, res)
  \/ \E i \in 1..Len(gens), res \in SetupFilesResults : GenerateSetupFilesDone(i, res)
  \/ \E i \in 1..Len(debugPending), fixData \in PlainFix : DebugCodeDone(i, fixData)
  \/ \E c \in 1..Len(conns) : SocketOpen(c)
  \/ \E c \in 1..Len(conns), data \in PlainMessages : SocketMessage(c, data)
  \/ \E c \in 1..Len(conns) : SocketClose(c, 1006)
  \/ \E ok \in BOOLEAN : RunBotDone(ok)
  \/ \E i \in 1..Len(stopPending), outcome \in {"ok", "reject"} : StopBotDone(i, outcome)
  \/ \E i \in 1..Len(restartPending) : RestartDelayElapsed(i)
  \/ countdown > RUNTIME_DURATION_SECONDS - MaxTicks /\ CountdownTick
  \/ StreamMessage
  \/ \E leaked \in BOOLEAN : StreamError(leaked)
  \/ ~hasUnrebuiltChanges /\ \E n \in {"main.py"}, code \in EditedCodes : UserEdit(n, code)
  \/ hist.userOps < MaxUserOps /\ UserClearLogs
  \/ hist.userOps < MaxUserOps /\ UserRebuild
  \/ hist.userOps < MaxUserOps /\ UserReset
  \/ hist.userOps < MaxUserOps /\ UserStop
  \/ hist.userOps < MaxUserOps /\ UserRestart

Spec == Init /\ [][Next]_vars

(***************************************************************************)
(* SpecLoop: one session from the start request to its end, with every     *)
(* answer of the compiler and every event of the build connection; no      *)
(* command is issued from the BotRunner panel.                             *)
(***************************************************************************)
NextLoop ==
  \/ TypeInputs("echo bot", "123:abc")
  \/ hist.sessions = 0 /\ StartRequested
  \/ \E i \in 1..Len(gens), res \in MetadataResults : GetBotMetadataDone(i, res)
  \/ \E i \in 1..Len(gens), res \in SecretsResults : ExtractRequiredSecretsDone(i, res)
  \/ \E i \in 1..Len(gens), res \in StructureResults : GenerateStructureDone(i, res)
  \/ \E i \in 1..Len(gens), res \in FileCodeResults : GenerateFileCodeDone(i, res)
  \/ \E i \in 1..Len(gens), res \in SetupFilesResults : GenerateSetupFilesDone(i, res)
  \/ \E i \in 1..Len(debugPending), fixData \in DebugResults : DebugCodeDone(i, fixData)
  \/ \E c \in 1..Len(conns) : SocketOpen(c)
  \/ \E c \in 1..Len(conns), data \in PlainMessages : SocketMessage(c, data)
  \/ \E c \in 1..Len(conns) : SocketClose(c, 1006)

SpecLoop == Init /\ [][NextLoop]_vars

(***************************************************************************)
(* The intake and generation of one session in which the verifier and the  *)
(* compiler answer every call, with no secret to gather.                   *)
(***************************************************************************)
NoSecrets == {[ok |-> TRUE, secrets |-> <<>>]}

HappyIntake ==
  \/ TypeInputs("echo bot", "123:abc")
  \/ hist.sessions = 0 /\ StartRequested
  \/ \E i \in 1..Len(gens), res \in Ok(MetadataResults) : GetBotMetadataDone(i, res)
  \/ \E i \in 1..Len(gens), res \in NoSecrets : ExtractRequiredSecretsDone(i, res)
  \/ \E i \in 1..Len(gens), res \in Ok(PlainStructure) : GenerateStructureDone(i, res)
  \/ \E i \in 1..Len(gens), res \in Ok(PlainFileCode) : GenerateFileCodeDone(i, res)
  \/ \E i \in 1..Len(gens), res \in Ok(SetupFilesResults) : GenerateSetupFilesDone(i, res)

(***************************************************************************)
(* SpecClient: the build client of backendService.buildBot under every     *)
(* behaviour of the executor and the transport: any message, a transport   *)
(* error, a close with either code, the watchdog, in every order.  The    *)
(* repair is refused, so that the session ends with the connection.       *)
(***************************************************************************)
NextClient ==
  \/ HappyIntake
  \/ \E c \in 1..Len(conns) : SocketOpen(c)
  \/ \E c \in 1..Len(conns), data \in BuildMessages : SocketMessage(c, data)
  \/ \E c \in 1..Len(conns) : SocketError(c)
  \/ \E c \in 1..Len(conns), code \in CloseCodes : SocketClose(c, code)
  \/ \E c \in 1..Len(conns) : WatchdogTimeout(c)
  \/ \E i \in 1..Len(debugPending) : DebugCodeDone(i, Failure)

SpecClient == Init /\ [][NextClient]_vars

(***************************************************************************)
(* SpecCountdown: a session that builds at once and whose runtime session  *)
(* is left alone: the controller starts the bot and the interval ticks,    *)
(* as often as it is live.                                                 *)
(***************************************************************************)
NextCountdown ==
  \/ HappyIntake
  \/ \E c \in 1..Len(conns) : SocketOpen(c)
  \/ \E c \in 1..Len(conns) : SocketMessage(c, [type |-> "BUILD_DONE"])
  \/ \E c \in 1..Len(conns) : SocketClose(c, NORMAL_CLOSURE)
  \/ RunBotDone(TRUE)
  \/ CountdownTick

SpecCountdown == Init /\ [][NextCountdown]_vars

(***************************************************************************)
(* SpecRebuild: a session whose files the user edits and rebuilds, the     *)
(* Rebuild button being clicked up to MaxRebuilds times while it is        *)
(* enabled; every build succeeds.                                          *)
(***************************************************************************)
NextRebuild ==
  \/ HappyIntake
  \/ \E c \in 1..Len(conns) : SocketOpen(c)
  \/ \E c \in 1..Len(conns) : SocketMessage(c, [type |-> "BUILD_DONE"])
  \/ \E c \in 1..Len(conns) : SocketClose(c, NORMAL_CLOSURE)
  \/ RunBotDone(TRUE)
  \/ \E i \in 1..Len(stopPending) : StopBotDone(i, "ok")
  \/ ~hasUnrebuiltChanges /\ \E code \in EditedCodes : UserEdit("main.py", code)
  \/ hist.rebuilds < MaxRebuilds /\ UserRebuild

SpecRebuild == Init /\ [][NextRebuild]_vars

(***************************************************************************)
(* SpecIntake: the intake of a session: any inputs, empty ones included,   *)
(* a start request on them, and a verifier that accepts or rejects the     *)
(* token; after an accepted token the pipeline goes on as in Spec.         *)
(***************************************************************************)
Prompts == {"", "echo bot", "weather bot"}

Tokens == {"", "123:abc", "456:def"}

NextIntake ==
  \/ \E p \in Prompts, t \in Tokens : TypeInputs(p, t)
  \/ StartInvoked
  \/ \E i \in 1..Len(gens), res \in MetadataResults : GetBotMetadataDone(i, res)
  \/ \E i \in 1..Len(gens), res \in SecretsResults : ExtractRequiredSecretsDone(i, res)
  \/ \E i \in 1..Len(gens), res \in PlainStructure : GenerateStructureDone(i, res)
  \/ \E i \in 1..Len(gens), res \in PlainFileCode : GenerateFileCodeDone(i, res)
  \/ \E i \in 1..Len(gens), res \in SetupFilesResults : GenerateSetupFilesDone(i, res)

SpecIntake == Init /\ [][NextIntake]_vars

(***************************************************************************)
(* SpecFailures: a session whose builds fail in every way the client knows *)
(* (BUILD_ERROR, transport error, unexpected close, watchdog) and whose    *)
(* repairs always return a patch, so that the attempts run out.            *)
(***************************************************************************)
NextFailures ==
  \/ HappyIntake
  \/ \E c \in 1..Len(conns) : SocketOpen(c)
  \/ \E c \in 1..Len(conns) :
       SocketMessage(c, [type |-> "BUILD_ERROR", message |-> <<"exit code 1">>])
  \/ \E c \in 1..Len(conns) : SocketError(c)
  \/ \E c \in 1..Len(conns), code \in CloseCodes : SocketClose(c, code)
  \/ \E c \in 1..Len(conns) : WatchdogTimeout(c)
  \/ \E i \in 1..Len(debugPending), fixData \in Ok(PlainFix) : DebugCodeDone(i, fixData)

SpecFailures == Init /\ [][NextFailures]_vars

(***************************************************************************)
(* SpecRace: as SpecRebuild, with an executor that may fail any build and  *)
(* a repair that always returns a patch.                                   *)
(***************************************************************************)
NextRace ==
  \/ HappyIntake
  \/ \E c \in 1..Len(conns) : SocketOpen(c)
  \/ \E c \in 1..Len(conns), data \in PlainMessages : SocketMessage(c, data)
  \/ \E c \in 1..Len(conns) : conns[c].rs = "CLOSING" /\ SocketClose(c, NORMAL_CLOSURE)
  \/ \E i \in 1..Len(debugPending), fixData \in Ok(PlainFix) : DebugCodeDone(i, fixData)
  \/ \E i \in 1..Len(stopPending) : StopBotDone(i, "ok")
  \/ ~hasUnrebuiltChanges /\ \E code \in EditedCodes : UserEdit("main.py", code)
  \/ hist.rebuilds < MaxRebuilds /\ UserRebuild

SpecRace == Init /\ [][NextRace]_vars

(***************************************************************************)
(* SpecEditor: as SpecRebuild, with an editor that saves either of two     *)
(* contents whenever the panel is on screen (lines 434, 324-330), also     *)
(* after Rebuild was clicked.                                              *)
(***************************************************************************)
MaxEdits == 2         \* saved edits recorded in the build log at one time

EditorCodes == {<<"print(3)">>, <<"print(4)">>}

SavedEdits ==
  Len(SelectSeq(logs, LAMBDA l :
        l.message = "Saved changes to %s. Click 'Rebuild' to apply them."))

NextEditor ==
  \/ HappyIntake
  \/ \E c \in 1..Len(conns) : SocketOpen(c)
  \/ \E c \in 1..Len(conns) : SocketMessage(c, [type |-> "BUILD_DONE"])
  \/ \E c \in 1..Len(conns) : SocketClose(c, NORMAL_CLOSURE)
  \/ RunBotDone(TRUE)
  \/ \E i \in 1..Len(stopPending) : StopBotDone(i, "ok")
  \/ SavedEdits < MaxEdits /\ \E code \in EditorCodes : UserEdit("main.py", code)
  \/ hist.rebuilds < MaxRebuilds /\ UserRebuild

SpecEditor == Init /\ [][NextEditor]_vars

(***************************************************************************)
(* SpecPatch: the two functions of runDebugStep that apply a repair, each  *)
(* on its own: the merge of fixed_files into a file list with unique names *)
(* (lines 206-217) and the union of updated_requirements into the lines of *)
(* requirements.txt (lines 223-225).  The function is applied to its       *)
(* arguments, then once more to its result.                                *)
(***************************************************************************)
MergeNames == {"main.py", "utils.py"}

MergeFiles ==
  {f \in SeqsUpTo({[name |-> n, code |-> <<"print(1)">>] : n \in MergeNames}, MaxFnLen) :
     \A i, j \in 1..Len(f) : f[i].name = f[j].name => i = j}

MergePatches ==
  SeqsUpTo({[name |-> n, code |-> c, changes_summary |-> "fix"] :
              n \in MergeNames, c \in {<<"print(2)">>, <<"print(3)">>}}, MaxFnLen)

ManifestCodes == SeqsUpTo({"aiogram==3.1", "requests", " requests", ""}, MaxFnLen)

RequirementUpdates == SeqsUpTo({"requests", "aiohttp", " requests"}, MaxFnLen)

InitPatch ==
  /\ InitApp /\ srv = NoSrv
  /\ calc \in {[fn |-> "merge", a |-> f, b |-> p, outs |-> <<>>] :
                 f \in MergeFiles, p \in MergePatches}
          \cup {[fn |-> "union", a |-> c, b |-> u, outs |-> <<>>] :
                  c \in ManifestCodes, u \in RequirementUpdates}

\* the argument of the next application: the first argument, then the last result
CalcInput == IF calc.outs = <<>> THEN calc.a ELSE calc.outs[Len(calc.outs)]

ApplyMerge ==
  /\ calc.fn = "merge" /\ Len(calc.outs) < 2
  /\ calc' = [calc EXCEPT !.outs = Append(@, applyFixedFiles(Cur, CalcInput, calc.b).files)]
  /\ UNCHANGED <<appVars, srv>>

ApplyUnion ==
  /\ calc.fn = "union" /\ Len(calc.outs) < 2
  /\ calc' = [calc EXCEPT !.outs = Append(@, unionRequirements(CalcInput, calc.b))]
  /\ UNCHANGED <<appVars, srv>>

NextPatch == ApplyMerge \/ ApplyUnion

SpecPatch == InitPatch /\ [][NextPatch]_vars

(***************************************************************************)
(* SpecGemini: geminiService.callGeminiForJson (lines 34-51) on its own,   *)
(* for a number of retries and any answers of callGemini: a text that is   *)
(* JSON, a text that is JSON but for a trailing comma, a text that is not  *)
(* (prose, a cut-off object, nothing), or a rejection.  calc holds the     *)
(* loop's variables, the answers received and the number of calls made.    *)
(* Every call of callGemini settles and the 500 ms delay elapses.          *)
(***************************************************************************)
MaxRetries == 2       \* the retries argument of callGeminiForJson

GeminiAnswers ==
  {[ok |-> TRUE, text |-> text] :
     text \in {"{\"secrets\": []}", "{\"secrets\": [],}", "I am sorry, I cannot",
                "{\"secrets\": [", ""}}
  \cup {Failure}

\* line 39: text.replace(/,(?=\s*[}\]])/g, '')
sanitizedText(text) == IF text = "{\"secrets\": [],}" THEN "{\"secrets\": []}" ELSE text

\* line 40: JSON.parse does not throw
JSONparses(text) == text = "{\"secrets\": []}"

\* variant: one more attempt is made than retries + 1
callGeminiForJsonOneMore(c, ans) ==
  LET c1 == [c EXCEPT !.calls = @ + 1, !.answers = Append(@, ans)]
  IN  IF ans.ok /\ JSONparses(sanitizedText(ans.text))
      THEN [c1 EXCEPT !.pc = "returned", !.result = sanitizedText(ans.text)]
      ELSE LET c2 == [c1 EXCEPT !.lastError = IF ans.ok THEN "SyntaxError"
                                              ELSE "Failed to get a valid response from AI."]
           IN  IF c.i <= c.retries THEN [c2 EXCEPT !.pc = "waiting"]
               ELSE [c2 EXCEPT !.i = @ + 1, !.pc = "thrown"]

\* lines 36-49, one iteration of the loop: the call, the parse, the catch
callGeminiForJson(c, ans) ==
  LET c1 == [c EXCEPT !.calls = @ + 1, !.answers = Append(@, ans)]
  IN  IF ans.ok /\ JSONparses(sanitizedText(ans.text))
      THEN [c1 EXCEPT !.pc = "returned", !.result = sanitizedText(ans.text)]
      ELSE LET c2 == [c1 EXCEPT !.lastError = IF ans.ok THEN "SyntaxError"
                                              ELSE "Failed to get a valid response from AI."]
           IN  IF c.i < c.retries THEN [c2 EXCEPT !.pc = "waiting"]
               ELSE [c2 EXCEPT !.i = @ + 1, !.pc = "thrown"]

InitGemini ==
  /\ InitApp /\ srv = NoSrv
  /\ calc \in {[fn |-> "callGeminiForJson", retries |-> r, i |-> 0, pc |-> "call",
                calls |-> 0, answers |-> <<>>, lastError |-> "null", result |-> "none"] :
                 r \in 0..MaxRetries}

\* await callGemini(prompt) settles
CallGeminiDone(ans) ==
  /\ calc.fn = "callGeminiForJson" /\ calc.pc = "call"
  /\ calc' = callGeminiForJson(calc, ans)
  /\ UNCHANGED <<appVars, srv>>

\* lines 45-47: the delay before the next attempt, then i++
GeminiRetryDelayElapsed ==
  /\ calc.fn = "callGeminiForJson" /\ calc.pc = "waiting"
  /\ calc' = [calc EXCEPT !.i = @ + 1, !.pc = "call"]
  /\ UNCHANGED <<appVars, srv>>

NextGemini ==
  \/ \E ans \in GeminiAnswers : CallGeminiDone(ans)
  \/ GeminiRetryDelayElapsed

SpecGemini == InitGemini /\ [][NextGemini]_vars /\ WF_vars(NextGemini)

(***************************************************************************)
(* SpecExecutor: the build executor's handleBuildRequest (part_002 lines   *)
(* 42-109) for one request: the daemon check, the setup, the image build   *)
(* with its progress events and its end, and the handler's own timeout.    *)
(* sent lists the calls of sendWsMessage, each with the socket's state at  *)
(* the call.                                                               *)
(***************************************************************************)
sendWsMessage(v, type, payload) ==
  [v EXCEPT !.sent = Append(@, [type |-> type, payload |-> payload, rs |-> v.rs])]

\* lines 42-47: the daemon check
handleBuildRequest(v, daemonUp) ==
  IF ~daemonUp
  THEN [sendWsMessage(v, "BUILD_ERROR", "Docker daemon is not running.")
          EXCEPT !.rs = "CLOSING", !.pc = "returned"]
  ELSE [v EXCEPT !.pc = "setup"]

\* lines 52-80 and the catch of lines 105-108: files written and buildImage
\* answered, then the timeout is armed and followProgress registered
setupDone(v, ok) ==
  IF ok THEN [v EXCEPT !.pc = "building", !.timer = "armed"]
  ELSE [sendWsMessage(v, "BUILD_ERROR", "An unexpected error occurred during build setup.")
          EXCEPT !.pc = "returned"]

\* lines 75-80: the build is not aborted, pc stays where it is
onBuildTimeout(v) ==
  [sendWsMessage(v, "BUILD_ERROR", "Build timed out after 2 minutes.")
     EXCEPT !.rs = "CLOSING", !.timer = "fired"]

\* lines 82-96
onFinished(v, outcome) ==
  LET v1 == [v EXCEPT !.timer = IF @ = "armed" THEN "cleared" ELSE @, !.pc = "finished"]
  IN  IF outcome = "err"
      THEN sendWsMessage(v1, "BUILD_ERROR", "Build failed during finalization.")
      ELSE IF outcome = "errorDetail"
      THEN sendWsMessage(v1, "BUILD_ERROR", "exit code 1")
      ELSE sendWsMessage(v1, "BUILD_DONE", "image")

\* lines 97-103
onProgressEvent(v, line) ==
  LET v1 == [v EXCEPT !.events = @ + 1]
  IN  IF line # "" THEN sendWsMessage(v1, "BUILD_LOG", trim(line)) ELSE v1

ProgressLines == {"", " ", "Step 1/2"}

BuildRequested(daemonUp) ==
  /\ srv.pc = "idle"
  /\ srv' = handleBuildRequest(srv, daemonUp)
  /\ UNCHANGED <<appVars, calc>>

SetupDone(ok) ==
  /\ srv.pc = "setup"
  /\ srv' = setupDone(srv, ok)
  /\ UNCHANGED <<appVars, calc>>

BuildProgress(line) ==
  /\ srv.pc = "building" /\ srv.events < MaxProgress
  /\ srv' = onProgressEvent(srv, line)
  /\ UNCHANGED <<appVars, calc>>

BuildFinished(outcome) ==
  /\ srv.pc = "building"
  /\ srv' = onFinished(srv, outcome)
  /\ UNCHANGED <<appVars, calc>>

BuildTimeout ==
  /\ srv.timer = "armed"
  /\ srv' = onBuildTimeout(srv)
  /\ UNCHANGED <<appVars, calc>>

NextExecutor ==
  \/ \E daemonUp \in BOOLEAN : BuildRequested(daemonUp)
  \/ \E ok \in BOOLEAN : SetupDone(ok)
  \/ \E line \in ProgressLines : BuildProgress(line)
  \/ \E outcome \in {"err", "errorDetail", "ok"} : BuildFinished(outcome)
  \/ BuildTimeout

SpecExecutor == Init /\ [][NextExecutor]_vars

(***************************************************************************)
(* Properties of the build / debug loop, checked under SpecLoop.           *)
(***************************************************************************)
ConfidenceLogged ==
  {i \in 1..Len(logs) :
     /\ logs[i].message = "AI has proposed fixes with %s% confidence. Applying changes..."
     /\ logs[i].arg = <<"90">>}

\* the executor has failed every attempt so far and every repair returned a patch
AlwaysFailing == sess.builds >= 1 /\ sess.buildOks = 0 /\ sess.repairFails = 0

\* C2: with an executor that fails every attempt and repairs that always return
\* a patch, the session is in ERROR only after exactly 3 calls of buildBot and
\* exactly 2 calls of debugCode, and never makes more calls than that.
C2_ThreeBuildsTwoRepairs ==
  AlwaysFailing =>
    /\ sess.builds <= MAX_FIX_ATTEMPTS /\ sess.repairs <= MAX_FIX_ATTEMPTS - 1
    /\ buildState = "ERROR" =>
         /\ sess.builds = 3 /\ sess.repairs = 2
         /\ debugPending = <<>>
         /\ \A c \in 1..Len(conns) : conns[c].completed

C2_Witness ==
  AlwaysFailing /\ buildState = "ERROR" /\ sess.builds = 3 /\ sess.repairs = 2

\* C9: when attempts 1 and 2 fail and attempt 3 succeeds, the build state is
\* SUCCESS, the attempt counter is 2, two repairs were invoked and each logged
\* its confidence value.
C9_SuccessOnThirdAttempt ==
  (sess.builds = 3 /\ sess.buildOks = 1) =>
    /\ buildState = "SUCCESS"
    /\ buildLoopAttempt = 2
    /\ sess.repairs = 2 /\ sess.repairFails = 0
    /\ Cardinality(ConfidenceLogged) = 2

C9_Witness ==
  sess.builds = 3 /\ sess.buildOks = 1 /\ buildState = "SUCCESS" /\ buildLoopAttempt = 2

\* C10: a repair that throws or returns no patched file moves DEBUGGING to ERROR
\* in the same step, leaving the files and the attempt counter as they were;
\* afterwards no build attempt is opened and no repair is invoked.
C10_RepairFailureIsFinal ==
  [][/\ sess'.repairFails > sess.repairFails =>
          /\ buildState = "DEBUGGING" /\ buildState' = "ERROR"
          /\ generatedFiles' = generatedFiles
          /\ currentBuildFiles' = currentBuildFiles
          /\ buildLoopAttempt' = buildLoopAttempt
          /\ buildLoopAttempt = sess.repairs
          /\ sess'.builds = sess.builds /\ sess'.repairs = sess.repairs
          /\ Len(conns') <= Len(conns) /\ debugPending' = <<>>
     /\ sess.repairFails > 0 =>
          /\ buildState' = "ERROR"
          /\ sess' = sess /\ Len(conns') <= Len(conns) /\ debugPending' = <<>>
          /\ generatedFiles' = generatedFiles
          /\ buildLoopAttempt' = buildLoopAttempt]_vars

C10_Witness ==
  /\ sess.repairFails = 1 /\ sess.repairs = 1 /\ buildState = "ERROR"
  /\ buildLoopAttempt = 1 /\ sess.builds = 1
  /\ \E i \in 1..Len(logs) : logs[i].arg = <<"AI could not determine a fix.">>

(***************************************************************************)
(* Properties of the build state machine and of reset, checked under Spec. *)
(***************************************************************************)
TransitionTable ==
  {<<"IDLE", "VALIDATING">>, <<"VALIDATING", "IDLE">>,
   <<"VALIDATING", "GATHERING_CONFIG">>, <<"VALIDATING", "PLANNING">>,
   <<"GATHERING_CONFIG", "PLANNING">>, <<"PLANNING", "CODING">>,
   <<"PLANNING", "ERROR">>, <<"CODING", "BUILDING">>, <<"CODING", "ERROR">>,
   <<"BUILDING", "SUCCESS">>, <<"BUILDING", "DEBUGGING">>, <<"BUILDING", "ERROR">>,
   <<"DEBUGGING", "BUILDING">>, <<"DEBUGGING", "ERROR">>,
   <<"SUCCESS", "BUILDING">>, <<"ERROR", "BUILDING">>}
  \cup {<<b, "IDLE">> : b \in BuildStates}

\* C1: every change of the build state is an edge of the transition table; in
\* particular there is no step from VALIDATING to ERROR.
C1_OnlyTableEdges ==
  [][buildState' # buildState => <<buildState, buildState'>> \in TransitionTable]_vars

LiveConns == {c \in 1..Len(conns) : conns[c].rs \in {"CONNECTING", "OPEN"}}

\* C4: once a reset has completed, no build connection, log stream or countdown
\* timer is live, and the session fields stay as the reset left them.
C4_NothingLiveAfterReset ==
  hist.resets > 0 =>
    /\ LiveConns = {} /\ LiveStreams = 0 /\ LiveTimers = 0
    /\ buildState = "IDLE" /\ logs = <<>> /\ generatedFiles = <<>>
    /\ runtimeState = "STOPPED" /\ runtimeLogs = <<>>
    /\ countdown = RUNTIME_DURATION_SECONDS

\* C5: the step that completes a reset leaves the build state IDLE, the files,
\* the build log and the runtime log empty, the attempt counter 0, the last
\* error empty, hasUnrebuiltChanges false, the runtime STOPPED, the countdown 600.
C5_ResetClearsAllFields ==
  [][hist'.resets > hist.resets =>
       /\ buildState' = "IDLE" /\ generatedFiles' = <<>>
       /\ logs' = <<>> /\ runtimeLogs' = <<>>
       /\ buildLoopAttempt' = 0 /\ lastBuildError' = EmptyStr
       /\ hasUnrebuiltChanges' = FALSE
       /\ runtimeState' = "STOPPED"
       /\ countdown' = RUNTIME_DURATION_SECONDS]_vars

\* a reset of a running session whose build had needed a repair
C5_Witness ==
  /\ hist.resets = 1 /\ buildState = "IDLE" /\ countdown = RUNTIME_DURATION_SECONDS
  /\ hist.stopCalls = 1 /\ sess.repairs >= 1 /\ runtimeState = "STOPPED"

(***************************************************************************)
(* Property of rebuilds, checked under SpecRebuild.                        *)
(***************************************************************************)
\* C3: at most one build connection is connecting or open at any instant.
C3_AtMostOneLiveConnection == Cardinality(LiveConns) <= 1

(***************************************************************************)
(* Property of the countdown, checked under SpecCountdown.                 *)
(***************************************************************************)
\* C6: when the countdown has reached 0 the automatic stop has happened: the
\* controller's stop was called once, the runtime is STOPPED or being stopped,
\* the log stream is closed and the timer cancelled.
C6_AutoStopAtZero ==
  countdown = 0 =>
    /\ hist.stopCalls = 1
    /\ runtimeState = "STOPPED" \/ Len(stopPending) > 0
    /\ LiveStreams = 0 /\ LiveTimers = 0

(***************************************************************************)
(* Properties of the build client, checked under SpecClient.               *)
(***************************************************************************)
\* C7: for each connection at most one outcome callback is invoked, at most
\* once: outcomes reported never outnumber the connections opened.
C7_SingleOutcome ==
  /\ \A c \in 1..Len(conns) :
       /\ conns[c].fired <= 1
       /\ conns[c].completed <=> conns[c].fired = 1
  /\ sess.buildOks + buildLoopAttempt <= sess.builds
  /\ sess.buildOks + buildLoopAttempt >= sess.builds - 1

\* a transport error decided the outcome and the close that followed was ignored
C7_Witness ==
  /\ conns = <<>> /\ sess.builds = 1 /\ buildLoopAttempt = 1 /\ sess.buildOks = 0
  /\ lastBuildError = <<"WebSocket connection failed.">>

\* C8: a connection that can raise no further event (closed, watchdog cleared)
\* has invoked onComplete or onError.
C8_EveryAttemptResolves ==
  \A c \in 1..Len(conns) :
    (conns[c].rs = "CLOSED" /\ ~conns[c].timer) => conns[c].completed

(***************************************************************************)
(* Property of the session in which every collaborator succeeds, checked   *)
(* under SpecCountdown.                                                    *)
(***************************************************************************)
HappyPath ==
  {<<"IDLE", "VALIDATING">>, <<"VALIDATING", "PLANNING">>, <<"PLANNING", "CODING">>,
   <<"CODING", "BUILDING">>, <<"BUILDING", "SUCCESS">>}

HasFile(files, name) == \E i \in 1..Len(files) : files[i].name = name

\* C11: with accepted inputs, no secret, a compiler and an executor that succeed,
\* the build state only moves along VALIDATING, PLANNING, CODING, BUILDING,
\* SUCCESS; in SUCCESS the runtime is RUNNING with no user command issued and
\* the files contain requirements.txt.
C11_HappyPathSequence ==
  /\ [][buildState' # buildState => <<buildState, buildState'>> \in HappyPath]_vars
  /\ [](buildState = "SUCCESS" =>
          /\ runtimeState = "RUNNING" /\ hist.userOps = 0
          /\ HasFile(generatedFiles, "requirements.txt")
          /\ sess.repairs = 0 /\ requiredSecrets = <<>>)

C11_Witness ==
  /\ buildState = "SUCCESS" /\ runtimeState = "RUNNING" /\ runtimeLogStreamRef = "open"
  /\ HasFile(generatedFiles, "requirements.txt") /\ hist.userOps = 0

(***************************************************************************)
(* Properties of the patch merge and the dependency union, checked under   *)
(* SpecPatch.                                                              *)
(***************************************************************************)
Names(files) == [i \in 1..Len(files) |-> files[i].name]

Range(q) == {q[i] : i \in 1..Len(q)}

\* the code the patch gives a name: that of its last entry with the name
PatchedCode(patch, name) ==
  patch[CHOOSE i \in 1..Len(patch) :
          /\ patch[i].name = name
          /\ \A j \in (i + 1)..Len(patch) : patch[j].name # name].code

\* the names of the patch that the files do not have, in patch order, each once
NewNames(files, patch) ==
  SetOf(SelectSeq(Names(patch), LAMBDA n : n \notin Range(Names(files))))

MergedAsSpecified(files, patch, out) ==
  /\ Len(out) = Len(files) + Len(NewNames(files, patch))
  /\ \A i \in 1..Len(files) :
       /\ out[i].name = files[i].name
       /\ out[i].code = IF files[i].name \in Range(Names(patch))
                        THEN PatchedCode(patch, files[i].name) ELSE files[i].code
  /\ \A k \in 1..Len(NewNames(files, patch)) :
       /\ out[Len(files) + k].name = NewNames(files, patch)[k]
       /\ out[Len(files) + k].code = PatchedCode(patch, NewNames(files, patch)[k])
  /\ Range(Names(patch)) \subseteq Range(Names(files)) => Names(out) = Names(files)

\* C12: the merge replaces in place the files the patch names, appends in patch
\* order the ones it does not have, leaves the others unchanged, and applied a
\* second time changes nothing.
C12_PatchMerge ==
  calc.fn = "merge" =>
    /\ Len(calc.outs) >= 1 => MergedAsSpecified(calc.a, calc.b, calc.outs[1])
    /\ Len(calc.outs) = 2 => calc.outs[2] = calc.outs[1]

\* utils.py is replaced in place and main.py appended, then nothing changes
C12_Witness ==
  /\ calc.fn = "merge" /\ Len(calc.outs) = 2
  /\ Names(calc.a) = <<"utils.py">> /\ Names(calc.b) = <<"main.py", "utils.py">>
  /\ Names(calc.outs[2]) = <<"utils.py", "main.py">>
  /\ calc.outs[2][1].code # calc.a[1].code

TrimmedNonBlank(q) == {trim(q[i]) : i \in 1..Len(q)} \ {""}

\* C13: the new manifest's lines are the set union of the existing non-blank
\* trimmed lines and the trimmed new entries, none twice, and a second
\* application yields the same set.
C13_DependencyUnion ==
  calc.fn = "union" =>
    /\ Len(calc.outs) >= 1 =>
         /\ Range(calc.outs[1]) = TrimmedNonBlank(calc.a) \cup TrimmedNonBlank(calc.b)
         /\ \A i, j \in 1..Len(calc.outs[1]) : calc.outs[1][i] = calc.outs[1][j] => i = j
    /\ Len(calc.outs) = 2 => Range(calc.outs[2]) = Range(calc.outs[1])

(***************************************************************************)
(* Properties of the attempt counter.                                      *)
(***************************************************************************)
\* C14: the attempt counter is always between 0 and 3, and a repair is invoked
\* only with the counter at 1 or 2.
C14_AttemptBounded ==
  /\ [](buildLoopAttempt \in 0..MAX_FIX_ATTEMPTS)
  /\ [][sess'.repairs > sess.repairs => buildLoopAttempt' \in {1, 2}]_vars

\* C15: within one session the attempt counter never decreases (only a
\* reset or a new start lowers it, a rebuild does not), so a session makes at
\* most 3 build attempts and at most 2 repair invocations.
C15_AttemptMonotone ==
  /\ [][\/ buildLoopAttempt' >= buildLoopAttempt
        \/ hist'.resets > hist.resets
        \/ hist'.sessions > hist.sessions]_vars
  /\ [](sess.builds <= MAX_FIX_ATTEMPTS /\ sess.repairs <= MAX_FIX_ATTEMPTS - 1)

(***************************************************************************)
(* Properties of the session's file set.                                   *)
(***************************************************************************)
\* C16: the names in the session's file set are pairwise distinct in every
\* reachable state, whatever the compiler, the repair and the editor return.
C16_FileNamesDistinct ==
  \A i, j \in 1..Len(generatedFiles) :
    generatedFiles[i].name = generatedFiles[j].name => i = j

(***************************************************************************)
(* Properties of the runtime session's stream and timer.                   *)
(***************************************************************************)
\* C17: at most one runtime log stream and at most one countdown timer are
\* live at any instant, for every interleaving of the runtime commands with
\* the pending responses of the runtime controller.
C17_OneStreamOneTimer == LiveStreams <= 1 /\ LiveTimers <= 1

(***************************************************************************)
(* Properties of the intake.                                               *)
(***************************************************************************)
\* everything of the session but the build log
SessionFields == <<prompt, token, tokenError, requiredSecrets, buildState, generatedFiles,
                   hasUnrebuiltChanges, buildLoopAttempt, currentBuildFiles,
                   lastBuildError, runtimeState, runtimeLogs, countdown, botMetadata,
                   countdownIntervalRef, runtimeLogStreamRef, conns, gens, debugPending,
                   startPending, stopPending, restartPending, sess>>

\* C18: a start request with an empty prompt or an empty token leaves the build
\* state IDLE and changes nothing but the build log; a token rejected by the
\* verifier takes VALIDATING back to IDLE with tokenError set; in both cases no
\* compiler call is pending, no file exists and no build connection is open.
C18_IntakeRejections ==
  /\ [][(PromptFormShown /\ (prompt = "" \/ token = "") /\ logs' # logs) =>
          /\ buildState' = "IDLE"
          /\ SessionFields' = SessionFields
          /\ logs' = Append(logs, LogEntry("Prompt and token are required.", <<>>, "error"))
          /\ gens' = <<>> /\ generatedFiles' = generatedFiles /\ conns' = conns]_vars
  /\ [][(buildState = "VALIDATING" /\ buildState' # "VALIDATING" /\ botMetadata' = "null") =>
          /\ buildState' = "IDLE" /\ tokenError' # "null"
          /\ gens' = <<>> /\ generatedFiles' = <<>> /\ conns' = <<>>
          /\ sess' = NoSess]_vars
  /\ [](tokenError # "null" =>
          buildState = "IDLE" /\ gens = <<>> /\ generatedFiles = <<>> /\ conns = <<>>)

\* an empty start was refused and a token was rejected
C18_Witness ==
  /\ hist.emptyStarts > 0 /\ hist.sessions > 0
  /\ buildState = "IDLE" /\ tokenError # "null"
  /\ \E k \in 1..Len(logs) : logs[k].message = "Token validation failed: %s"

\* the step appends a build log entry with this wording
Logged(message) ==
  \E k \in (Len(logs) + 1)..Len(logs') : logs'[k].message = message

\* C19: a failure of the plan, of a file-content call or of the setup-files call
\* during PLANNING or CODING moves the build state to ERROR, opens no build
\* connection, invokes no repair and leaves the attempt counter at 0.
C19_GenerationFailureAborts ==
  /\ [][(buildState \in {"PLANNING", "CODING"} /\ Logged("Failed during code generation: %s")) =>
          /\ buildState' = "ERROR"
          /\ conns = <<>> /\ conns' = <<>> /\ gens' = <<>>
          /\ debugPending' = <<>> /\ sess' = NoSess
          /\ buildLoopAttempt' = 0]_vars
  /\ [][(buildState \in {"PLANNING", "CODING"} /\ gens # <<>> /\ gens' = <<>>
         /\ buildState' # "BUILDING") =>
          Logged("Failed during code generation: %s")]_vars
  /\ []((buildState = "ERROR" /\ sess.builds = 0) =>
          conns = <<>> /\ debugPending = <<>> /\ buildLoopAttempt = 0)

\* a file-content call failed after a first file had been generated
C19_Witness ==
  /\ buildState = "ERROR" /\ sess = NoSess /\ generatedFiles # <<>>
  /\ logs # <<>> /\ logs[Len(logs)].message = "Failed during code generation: %s"

(***************************************************************************)
(* Properties of the rebuild command.                                      *)
(***************************************************************************)
\* C20: every ERROR is recoverable by rebuild: in ERROR a rebuild request is
\* accepted once a file has been edited, and also with no edit when the ERROR
\* came from a failed build; in SUCCESS it is accepted only with unrebuilt
\* changes.
C20_ErrorRecoverableByRebuild ==
  /\ (buildState = "ERROR" /\ hasUnrebuiltChanges) => RebuildEnabled
  /\ (buildState = "ERROR" /\ buildLoopAttempt >= MAX_FIX_ATTEMPTS) => RebuildEnabled
  /\ buildState = "SUCCESS" => (RebuildEnabled <=> hasUnrebuiltChanges)

(***************************************************************************)
(* Properties of the build log.                                            *)
(***************************************************************************)
\* the entries appended before the first entry into BUILDING, as a count
GenerationLogs == IF sess.builds = 0 THEN Len(logs) ELSE sess.genLogs

\* C21: a clear of the build log, by the user in ERROR or by a rebuild, never
\* removes an entry appended before the first entry into BUILDING, also when
\* no build was ever attempted.
C21_ClearKeepsGenerationLogs ==
  [][(hist'.resets = hist.resets /\ hist'.sessions = hist.sessions) =>
       /\ Len(logs') >= GenerationLogs
       /\ \A k \in 1..GenerationLogs : logs'[k] = logs[k]]_vars

(***************************************************************************)
(* Properties of the runtime commands.                                     *)
(***************************************************************************)
\* C22: when the runtime controller's start call fails, the runtime state
\* returns to STOPPED and stays so (no further start is issued), no log stream
\* is opened, no countdown timer is armed and the build state is unchanged.
C22_StartFailureStaysStopped ==
  [][hist'.runFails > hist.runFails =>
       /\ runtimeState' = "STOPPED"
       /\ startPending' = startPending - 1
       /\ LiveStreams' = LiveStreams /\ LiveTimers' = LiveTimers
       /\ buildState' = buildState]_vars

\* C23: a stop issued while the runtime is RUNNING ends, whatever the runtime
\* controller answers, with the runtime STOPPED (until something starts it
\* again), the stream closed and the timer cancelled, and the command that
\* began with the stop (reset, rebuild, restart) goes on.
C23_StopAlwaysCompletes ==
  [][Len(stopPending') < Len(stopPending) =>
       /\ runtimeState' = "STOPPED" \/ startPending' > startPending
       /\ \E i \in 1..Len(stopPending) :
            /\ stopPending' = RemoveAt(stopPending, i)
            /\ stopPending[i].kind = "reset" => hist'.resets > hist.resets
            /\ stopPending[i].kind = "rebuild" => sess'.builds > sess.builds
            /\ stopPending[i].kind = "restart" => Len(restartPending') > Len(restartPending)]_vars

\* the step appends a runtime log entry with this wording
RuntimeLogged(message) ==
  /\ Len(runtimeLogs') > 0
  /\ runtimeLogs' # runtimeLogs
  /\ \E k \in 1..Len(runtimeLogs') : runtimeLogs'[k].message = message
  /\ ~\E k \in 1..Len(runtimeLogs) : runtimeLogs[k].message = message

\* C24: an error event of the runtime log stream received while the runtime
\* is RUNNING starts a stop (the controller's stop is called, after which the
\* state is STOPPED), closes the stream, cancels the countdown timer and
\* leaves the build state unchanged.
C24_StreamErrorStops ==
  [][(runtimeState = "RUNNING" /\ RuntimeLogged("Log stream disconnected.")) =>
       /\ Len(stopPending') > Len(stopPending)
       /\ runtimeLogStreamRef' # "open" /\ countdownIntervalRef' # "live"
       /\ buildState' = buildState]_vars

(***************************************************************************)
(* Properties of the handlers' suspension points.                          *)
(***************************************************************************)
\* the suspended invocations of the command that began with a stop
Suspended(kind) == {i \in 1..Len(stopPending) : stopPending[i].kind = kind}

\* C25: no handler is entered again while an earlier invocation of it is
\* suspended at an await: at most one rebuild, one reset, one restart, one
\* stop and one start wait for the runtime controller at any time.
C25_NoReentry ==
  /\ \A kind \in {"rebuild", "reset", "restart", "stop"} : Cardinality(Suspended(kind)) <= 1
  /\ startPending <= 1

(***************************************************************************)
(* Properties of the build executor.                                       *)
(***************************************************************************)
TerminalSent == {k \in 1..Len(srv.sent) : srv.sent[k].type \in {"BUILD_DONE", "BUILD_ERROR"}}

RuntimeSide(s) ==
  <<s.runtimeState, s.runtimeLogs, s.countdown, s.buildState, s.countdownIntervalRef,
    s.runtimeLogStreamRef, s.leakedTimers, s.leakedStreams, s.startPending,
    s.stopPending, s.hist.stopCalls>>

\* C27: start is a no-op when the runtime is already RUNNING and stop is a
\* no-op when it is already STOPPED: every start that can be invoked in a
\* RUNNING state (the effect's, the delayed one of a restart) and every stop
\* that can be invoked in a STOPPED state (the timer's and the stream's, the
\* one of reset and of rebuild) calls no controller and changes nothing.
C27_StartStopNoOps ==
  /\ runtimeState = "RUNNING" =>
       /\ autoStartEffect(Cur, Cur) = Cur
       /\ \A i \in 1..Len(restartPending) :
            RuntimeSide(startBot(Cur, restartPending[i])) = RuntimeSide(Cur)
  /\ runtimeState = "STOPPED" =>
       /\ RuntimeSide(stopBotOfStartBot(Cur)) = RuntimeSide(Cur)
       /\ handleReset(Cur).stopPending = stopPending
       /\ handleRebuild(Cur).stopPending = stopPending
       /\ restartBot(Cur).stopPending = stopPending

\* the runtime was started again while the delayed start of a restart is pending
C27_Witness ==
  /\ runtimeState = "RUNNING" /\ restartPending # <<>>
  /\ runtimeLogStreamRef = "open" /\ countdownIntervalRef = "live"

\* C28: the runtime is started automatically only by the transition into
\* SUCCESS; otherwise a start is issued only by the user's start or restart,
\* so a runtime stopped while the build state stays SUCCESS stays stopped, and
\* no start is issued in a build state other than SUCCESS.
C28_AutoStartOnlyOnSuccess ==
  [][startPending' > startPending =>
       /\ buildState' = "SUCCESS"
       /\ \/ buildState # "SUCCESS"
          \/ Len(restartPending') < Len(restartPending)]_vars

(***************************************************************************)
(* Properties of the handling of build failures.                           *)
(***************************************************************************)
\* an event of one of the four failure kinds on connection c
FailureEvent(c) ==
  \/ SocketMessage(c, [type |-> "BUILD_ERROR", message |-> <<"exit code 1">>])
  \/ SocketError(c)
  \/ SocketClose(c, 1006)
  \/ conns[c].rs \notin {"CLOSED", "CLOSING"} /\ WatchdogTimeout(c)

\* C29: a BUILD_ERROR, a transport error, a close with a code other than 1000
\* and the watchdog timeout are handled alike: on a connection that has not
\* reported its outcome each delivers one onError, which adds one to the
\* attempt counter and leads to DEBUGGING (with one repair invoked) while
\* attempts remain and to ERROR when they are exhausted; on a connection that
\* has reported its outcome none of them delivers anything.
C29_FailuresHandledAlike ==
  /\ [][\A c \in 1..Len(conns) : (~conns[c].completed /\ FailureEvent(c)) =>
          /\ buildLoopAttempt' = buildLoopAttempt + 1
          /\ IF buildLoopAttempt + 1 < MAX_FIX_ATTEMPTS
             THEN /\ buildState' = "DEBUGGING"
                  /\ Len(debugPending') = Len(debugPending) + 1
                  /\ sess'.repairs = sess.repairs + 1
             ELSE /\ buildState' = "ERROR"
                  /\ debugPending' = debugPending /\ sess'.repairs = sess.repairs]_vars
  /\ [][\A c \in 1..Len(conns) : (conns[c].completed /\ FailureEvent(c)) =>
          /\ buildLoopAttempt' = buildLoopAttempt /\ buildState' = buildState
          /\ debugPending' = debugPending /\ logs' = logs]_vars

\* three builds failed in three different ways and the attempts are exhausted
C29_Witness ==
  /\ buildState = "ERROR" /\ buildLoopAttempt = MAX_FIX_ATTEMPTS /\ sess.repairs = 2
  /\ \E k \in 1..Len(logs) : logs[k].arg = <<"WebSocket connection failed.">>
  /\ \E k \in 1..Len(logs) : logs[k].arg = <<"Build connection closed unexpectedly.">>
  /\ logs[Len(logs)].arg = <<"Build request timed out after 120 seconds.">>

\* C30: a restart issued while RUNNING performs one stop and then, after the
\* fixed delay and not before, one start: no start is issued when the stop
\* returns, and the delayed call issues exactly one start call, after which
\* the runtime is RUNNING; a restart issued while STOPPED issues no stop.
C30_RestartStopsThenStarts ==
  /\ [][(\E i \in 1..Len(stopPending) :
           /\ stopPending[i].kind = "restart"
           /\ stopPending' = RemoveAt(stopPending, i)
           /\ Len(restartPending') > Len(restartPending)) =>
          startPending' = startPending]_vars
  /\ [][Len(restartPending') < Len(restartPending) =>
          startPending' = startPending + 1 /\ runtimeState' = "RUNNING"]_vars
  /\ [][(runtimeState = "STOPPED" /\ Len(restartPending') > Len(restartPending)) =>
          hist'.stopCalls = hist.stopCalls]_vars

(***************************************************************************)
(* Properties relating the runtime session to the build state.             *)
(***************************************************************************)
\* C31: whenever the runtime state is RUNNING, or a runtime log stream or a
\* countdown timer is live, the build state is SUCCESS.
C31_RuntimeOnlyInSuccess ==
  (runtimeState = "RUNNING" \/ LiveStreams > 0 \/ LiveTimers > 0) => buildState = "SUCCESS"

(***************************************************************************)
(* Properties of what the repair receives and returns.                     *)
(***************************************************************************)
\* C32: a repair invoked by the failure of a build attempt receives the file
\* set that attempt was run on and the error of that attempt; the build
\* retried after a repair is run on the merged file set that is also stored
\* as the session's file set.
C32_RepairSeesFailedAttempt ==
  /\ [][\A c \in 1..Len(conns) :
          (~conns[c].completed /\ FailureEvent(c) /\ sess'.repairs > sess.repairs) =>
            /\ debugPending' # <<>>
            /\ debugPending'[Len(debugPending')].files = conns[c].files
            /\ debugPending'[Len(debugPending')].errorLog = lastBuildError']_vars
  /\ [][(Len(debugPending') < Len(debugPending) /\ sess'.builds > sess.builds) =>
          /\ conns' # <<>>
          /\ conns'[Len(conns')].files = generatedFiles'
          /\ currentBuildFiles' = generatedFiles']_vars

\* C33: when the attempts are exhausted and the build state becomes ERROR, the
\* stored last error is the message of the final failed attempt, the step
\* removes no log entry and no file, and the build log holds every entry
\* appended since the session started, with the message of each failed attempt.
C33_ExhaustionKeepsTranscript ==
  /\ [][\A c \in 1..Len(conns) :
          (~conns[c].completed /\ FailureEvent(c) /\ buildState' = "ERROR") =>
            /\ buildLoopAttempt' >= MAX_FIX_ATTEMPTS
            /\ lastBuildError' # EmptyStr
            /\ logs'[Len(logs')] = LogEntry("%s", lastBuildError', "raw")
            /\ Len(logs') = Len(logs) + 5
            /\ SubSeq(logs', 1, Len(logs)) = logs
            /\ logs'[Len(logs) + 2] = LogEntry("%s", lastBuildError', "raw")
            /\ generatedFiles' = generatedFiles]_vars
  /\ [][(hist'.sessions = hist.sessions /\ hist'.resets = hist.resets
         /\ hist'.userOps = 0) =>
          (Len(logs') >= Len(logs) /\ SubSeq(logs', 1, Len(logs)) = logs)]_vars
  /\ [](buildLoopAttempt = MAX_FIX_ATTEMPTS /\ buildState = "ERROR" /\ hist.userOps = 0 =>
          Cardinality({k \in 1..Len(logs) : logs[k].message = "Build failed (Attempt %s)."})
            = MAX_FIX_ATTEMPTS)

\* three failed attempts, the last one by the watchdog
C33_Witness ==
  /\ buildState = "ERROR" /\ buildLoopAttempt = MAX_FIX_ATTEMPTS
  /\ lastBuildError = <<"Build request timed out after 120 seconds.">>
  /\ \E k \in 1..Len(logs) : logs[k].arg = <<"exit code 1">>

(***************************************************************************)
(* Properties of the error message of a failed build.                      *)
(***************************************************************************)
\* the BUILD_LOG lines delivered so far, in arrival order (each is logged as it arrives)
ArrivedLines ==
  LET entries == SelectSeq(logs, LAMBDA l : l.message = "%s" /\ l.type = "log")
  IN  [k \in 1..Len(entries) |-> entries[k].arg[1]]

\* the line contains 'error' in some case
HasErrorMarker(line) == line \in {"ERROR: pip failed", "error again"}

\* the lines, each followed by a newline, as one text
RECURSIVE JoinLines(_)
JoinLines(lines) ==
  IF lines = <<>> THEN EmptyStr ELSE AppendLine(JoinLines(Front(lines)), lines[Len(lines)])

\* C34: a BUILD_ERROR without a message delivers to onError the BUILD_LOG lines
\* of the connection that contain the marker 'error' in any case, in arrival
\* order, and 'Unknown build error.' when there is none; a BUILD_ERROR with a
\* message delivers that message unchanged.
C34_FallbackErrorMessage ==
  [][\A c \in 1..Len(conns) : \A m \in {EmptyStr, <<"exit code 1">>} :
       (~conns[c].completed /\ SocketMessage(c, [type |-> "BUILD_ERROR", message |-> m])) =>
         lastBuildError' =
           IF m # EmptyStr THEN m
           ELSE IF SelectSeq(ArrivedLines, HasErrorMarker) = <<>>
                THEN <<"Unknown build error.">>
                ELSE JoinLines(SelectSeq(ArrivedLines, HasErrorMarker))]_vars

\* two marked lines in either case arrived before a BUILD_ERROR without a message
C34_Witness ==
  /\ lastBuildError = <<"error again", "ERROR: pip failed", "">>
  /\ buildLoopAttempt = 1

(***************************************************************************)
(* The configuration form (ConfigurationForm.tsx) and its submission.      *)
(***************************************************************************)
SecretValues == {"", " ", "abc123"}

\* lines 13-15: every field of the form starts empty
InitialFormState == [k \in Range(requiredSecrets) |-> ""]

\* lines 17-19, 51: a field can be typed into only while the inputs are not disabled
FormStates ==
  IF isBuilding THEN {InitialFormState} ELSE [Range(requiredSecrets) -> SecretValues]

\* line 26
allFieldsFilled(formState) ==
  \A k \in Range(requiredSecrets) : trim(formState[k]) # ""

\* line 57 and Tooltip.tsx lines 399-405: the form is rendered in GATHERING_CONFIG only
\* and its submit button is disabled={isBuilding || !allFieldsFilled}
SubmitEnabled(formState) ==
  buildState = "GATHERING_CONFIG" /\ ~(isBuilding \/ ~allFieldsFilled(formState))

\* C36: GATHERING_CONFIG is left for PLANNING only by a secrets submission in
\* which every required secret is non-blank; a submission with a missing or
\* blank secret is not accepted, and none is accepted outside GATHERING_CONFIG.
C36_OnlyFilledSubmissionAccepted ==
  /\ [][(buildState = "GATHERING_CONFIG" /\ buildState' = "PLANNING") =>
          \E formState \in FormStates : SubmitEnabled(formState)]_vars
  /\ [](\A formState \in FormStates :
          SubmitEnabled(formState) =>
            buildState = "GATHERING_CONFIG" /\ allFieldsFilled(formState))

C35_EditInPlace ==
  [][\A n \in {"main.py"}, code \in EditorCodes \cup EditedCodes :
       UserEdit(n, code) =>
         /\ Len(generatedFiles') = Len(generatedFiles)
         /\ \A i \in 1..Len(generatedFiles) :
              /\ generatedFiles'[i].name = generatedFiles[i].name
              /\ generatedFiles'[i].code =
                   IF generatedFiles[i].name = n THEN code ELSE generatedFiles[i].code
         /\ buildState' = buildState
         /\ buildLoopAttempt' = buildLoopAttempt
         /\ <<runtimeState, countdown, runtimeLogs, countdownIntervalRef,
              runtimeLogStreamRef>>' =
            <<runtimeState, countdown, runtimeLogs, countdownIntervalRef,
              runtimeLogStreamRef>>
         /\ hasUnrebuiltChanges']_vars

\* C35: a manual edit is in place and leaves the build and the runtime alone,
\* and the build request a rebuild sends to the executor carries the files as
\* they were last saved.
C35_RebuildSendsEdits ==
  /\ C35_EditInPlace
  /\ [][(sess'.builds > sess.builds /\ hist'.rebuilds > 0 /\ buildLoopAttempt' = 0) =>
          conns'[Len(conns')].files = generatedFiles']_vars

(***************************************************************************)
(* Properties of hasUnrebuiltChanges.                                      *)
(***************************************************************************)
\* a file is saved in the editor
EditSaved == \E code \in EditorCodes \cup EditedCodes : UserEdit("main.py", code)

\* a build connection reports BUILD_DONE for the first time
BuildSucceeded ==
  \E c \in 1..Len(conns) :
    ~conns[c].completed /\ SocketMessage(c, [type |-> "BUILD_DONE"])

\* C37: hasUnrebuiltChanges is set by a manual edit and by nothing else, is
\* cleared by a build success or a reset and by nothing else (not by the start
\* of a rebuild, a failed build or a repair patch), so it is true exactly when
\* a file was edited after the last build success or reset.
C37_UnrebuiltChangesTracksEdits ==
  /\ [][(~hasUnrebuiltChanges /\ hasUnrebuiltChanges') => EditSaved]_vars
  /\ [][(hasUnrebuiltChanges /\ ~hasUnrebuiltChanges') =>
          (BuildSucceeded \/ hist'.resets > hist.resets)]_vars
  /\ [][EditSaved => hasUnrebuiltChanges']_vars
  /\ [][(BuildSucceeded \/ hist'.resets > hist.resets) => ~hasUnrebuiltChanges']_vars

\* an edit is still unbuilt after a rebuild was started, failed and was patched
C37_Witness ==
  /\ hasUnrebuiltChanges
  /\ hist.rebuilds > 0
  /\ sess.repairs > 0
  /\ buildState = "BUILDING"
  /\ \E i \in 1..Len(generatedFiles) : generatedFiles[i].code = <<"print(2)">>

(***************************************************************************)
(* Properties of the countdown.                                            *)
(***************************************************************************)
\* C38: the countdown is always between 0 and 600; a tick lowers it by
\* exactly 1 while it is above 0 and never below 0; it changes by a tick or
\* by being set to 600 (a start or a runtime reset) and in no other way.
C38_CountdownRange ==
  /\ [](countdown \in 0..RUNTIME_DURATION_SECONDS)
  /\ [][CountdownTick =>
          countdown' = IF countdown > 0 THEN countdown - 1 ELSE 0]_vars
  /\ [][countdown' # countdown =>
          \/ CountdownTick
          \/ countdown' = RUNTIME_DURATION_SECONDS]_vars

\* the interval has run the countdown down to 0 and fired once more
C38_Witness ==
  /\ countdown = 0
  /\ LiveTimers > 0
  /\ ENABLED CountdownTick

(***************************************************************************)
(* Properties of callGeminiForJson.                                        *)
(***************************************************************************)
\* the answer is a text that parses once its trailing commas are removed
Parses(ans) == ans.ok /\ JSONparses(sanitizedText(ans.text))

\* C39: callGeminiForJson with retries = r calls the model at most r + 1
\* times; it returns the first answer that parses, making no call after it;
\* it throws only after r + 1 attempts that all failed; it always ends.
C39_BoundedAttempts ==
  /\ [](calc.fn = "callGeminiForJson" =>
          /\ calc.calls <= calc.retries + 1
          /\ calc.calls = Len(calc.answers)
          /\ calc.pc = "returned" =>
               /\ Parses(calc.answers[calc.calls])
               /\ \A k \in 1..(calc.calls - 1) : ~Parses(calc.answers[k])
               /\ calc.result = sanitizedText(calc.answers[calc.calls].text)
          /\ calc.pc = "thrown" =>
               /\ calc.calls = calc.retries + 1
               /\ \A k \in 1..calc.calls : ~Parses(calc.answers[k]))
  /\ [][calc.fn = "callGeminiForJson" /\ calc.pc \in {"returned", "thrown"} =>
          calc' = calc]_vars
  /\ (calc.fn = "callGeminiForJson" => <>(calc.pc \in {"returned", "thrown"}))

\* the last permitted attempt returns an answer with a trailing comma
C39_Witness ==
  /\ calc.fn = "callGeminiForJson"
  /\ calc.pc = "returned"
  /\ calc.retries = 2 /\ calc.calls = 3
  /\ calc.answers[3].text = "{\"secrets\": [],}"

\* every permitted attempt failed
C39_Exhausted ==
  /\ calc.fn = "callGeminiForJson"
  /\ calc.pc = "thrown"
  /\ calc.retries = 1 /\ calc.calls = 2

====
